---- MODULE Spec2Model ----
(***************************************************************************)
(* Model of the OwnU backend core: the WebAuthn ceremony handlers          *)
(* (internal/api/auth.go), the in-memory ceremony session store            *)
(* (internal/auth), the user repository, the KEK/DEK envelope and the      *)
(* cursor-based Plaid transaction sync (internal/api plaid handlers).      *)
(*                                                                         *)
(* Every HTTP request runs on its own goroutine.  A handler is modelled as *)
(* a sequence of steps, one per access to shared state (session store or   *)
(* database); the local computation between two accesses belongs to the    *)
(* step that precedes it.                                                  *)
(***************************************************************************)
EXTENDS Integers, Sequences, FiniteSets, TLC

(***************************************************************************)
(* Bounds of the model                                                     *)
(***************************************************************************)
NumReq == 2          \* request goroutines running auth handlers
MaxRegistrations == 1 \* registration ceremonies begun in a behaviour
MaxLogins == 2       \* login ceremonies begun in a behaviour
MaxTime == 6         \* last minute on the clock
MaxSignCount == 2    \* largest authenticator signature counter
MaxNewSignCount == 0 \* largest counter a new authenticator reports at registration
NumSeeds == 2        \* distinct outcomes of the entropy source
MaxStoreTime == 7    \* last minute on the clock of the session store on its own
NumStoreKeys == 2    \* handles used in direct calls of the session store
NumCallers == 2      \* request goroutines calling the session store

(***************************************************************************)
(* Program constants                                                       *)
(***************************************************************************)
SessionTTL == 5      \* minutes, SessionStore.Save
EntropyLen == 16     \* bytes of entropy in GenerateRecoveryPhrase
PhraseWords == 12    \* words of a recovery phrase
WordListLen == 256   \* len(wordList)
SweepPeriod == 1     \* minutes, the ticker of SessionStore.cleanup
TokenTTL == 96       \* quarter hours, 24 * time.Hour in generateJWT
AccessTokenPolicy == 1  \* quarter hours, the access token expiration of the security policy

\* The clock advances in steps of one session lifetime plus a minute, the
\* smallest step after which every entry saved before it has expired.
TickStep == SessionTTL + 1

Reqs == 1..NumReq
\* uuid.New() returns at most two values per ceremony
MaxUUID == 2 * MaxRegistrations + MaxLogins + 2
UUIDs == 1..MaxUUID
SignCounts == 0..MaxSignCount
Usernames == {"", "alice", "bob"}
CredIDs == {"credA", "credB"}
DEKs == {"dek1", "dek2"}
Salts == {"salt1"}
Nonces == {"n1"}
TempSecrets == {"randomhex"}
PlaceholderSecret == "placeholder-secret"
\* PRF outputs a client may send, as decoded bytes ("" = field omitted)
PRFBytes == {"prfA", PlaceholderSecret}
NoValue == "none"

(***************************************************************************)
(* Strings of a recovery phrase: a sequence of characters, where a         *)
(* character is a blank or one letter group of a word (the word's index in *)
(* wordList, lower case as in the list, or its upper-case variant).        *)
(***************************************************************************)
Blank == [w |-> -1, up |-> FALSE]
Lower(w) == [w |-> w, up |-> FALSE]
Upper(w) == [w |-> w, up |-> TRUE]

RECURSIVE BitXor(_, _)
\* Go's ^ on non-negative ints
BitXor(a, b) ==
    IF a = 0 THEN b
    ELSE IF b = 0 THEN a
    ELSE (((a % 2) + (b % 2)) % 2) + 2 * BitXor(a \div 2, b \div 2)

\* one outcome of io.ReadFull(rand.Reader, entropy)
Entropy(seed) == [i \in 1..EntropyLen |-> ((seed * 37 * i) + (11 * seed)) % 256]
EntropySources == {Entropy(s) : s \in 1..NumSeeds}

RECURSIVE JoinWords(_)
\* strings.Join(words, " ")
JoinWords(ws) ==
    IF Len(ws) = 0 THEN <<>>
    ELSE IF Len(ws) = 1 THEN <<ws[1]>>
    ELSE <<ws[1], Blank>> \o JoinWords(Tail(ws))

\* crypto.GenerateRecoveryPhrase for a given outcome of the entropy source
GenerateRecoveryPhrase(entropy) ==
    JoinWords([i \in 1..PhraseWords |->
        Lower(BitXor(entropy[((i - 1) % EntropyLen) + 1],
                     entropy[(i % EntropyLen) + 1]) % WordListLen)])

\* the outcomes of a call of crypto.GenerateRecoveryPhrase
RecoveryPhrases == {GenerateRecoveryPhrase(e) : e \in EntropySources}

RECURSIVE TrimLeft(_)
TrimLeft(s) == IF Len(s) > 0 /\ s[1] = Blank THEN TrimLeft(Tail(s)) ELSE s

RECURSIVE TrimRight(_)
TrimRight(s) ==
    IF Len(s) > 0 /\ s[Len(s)] = Blank
    THEN TrimRight(SubSeq(s, 1, Len(s) - 1)) ELSE s

\* strings.TrimSpace
TrimSpace(s) == TrimRight(TrimLeft(s))

\* strings.ToLower
ToLower(s) == [i \in 1..Len(s) |-> [s[i] EXCEPT !.up = FALSE]]

\* sha256.Sum256, collision free
Sha256(s) == <<"sha256", s>>

\* a hash of the phrase as typed, with no normalisation
HashRecoveryPhraseExact(passphrase) == Sha256(passphrase)

\* crypto.HashRecoveryPhrase
HashRecoveryPhrase(passphrase) == Sha256(ToLower(TrimSpace(passphrase)))

\* crypto.VerifyRecoveryPhrase
VerifyRecoveryPhrase(passphrase, storedHash) ==
    HashRecoveryPhrase(passphrase) = storedHash

(***************************************************************************)
(* Envelope encryption                                                     *)
(***************************************************************************)
\* argon2.IDKey(secret, salt, ...): deterministic, collision free
DeriveKeyFromSecret(secret, salt) == <<"argon2id", secret, salt>>

\* the length of the first field of s, s starting with no blank
RECURSIVE FieldLen(_)
FieldLen(s) == IF s = <<>> \/ Head(s) = Blank THEN 0 ELSE 1 + FieldLen(Tail(s))

\* strings.Fields: the maximal runs of characters that are no blanks
RECURSIVE Fields(_)
Fields(s) ==
    IF s = <<>> THEN <<>>
    ELSE IF Head(s) = Blank THEN Fields(Tail(s))
    ELSE <<SubSeq(s, 1, FieldLen(s))>> \o Fields(SubSeq(s, FieldLen(s) + 1, Len(s)))

\* strings.Join(words, " ") for words of several characters
RECURSIVE JoinFields(_)
JoinFields(fs) ==
    IF Len(fs) = 0 THEN <<>>
    ELSE IF Len(fs) = 1 THEN fs[1]
    ELSE fs[1] \o <<Blank>> \o JoinFields(Tail(fs))

\* crypto.DeriveKeyFromPassphrase
DeriveKeyFromPassphrase(passphrase, salt) ==
    DeriveKeyFromSecret(JoinFields(Fields(ToLower(TrimSpace(passphrase)))), salt)

\* crypto.Encrypt: AES-GCM under key with the given fresh nonce
Encrypt(plaintext, key, nonce) == [nonce |-> nonce, key |-> key, pt |-> plaintext]

\* crypto.Decrypt: the tag verifies only under the key that sealed it
Decrypt(ciphertext, key) ==
    IF ciphertext.key = key
    THEN [ok |-> TRUE, pt |-> ciphertext.pt]
    ELSE [ok |-> FALSE, pt |-> NoValue]

EncryptDEK(dek, kek, nonce) == Encrypt(dek, kek, nonce)
DecryptDEK(encryptedDEK, kek) == Decrypt(encryptedDEK, kek)

(***************************************************************************)
(* Encrypt and Decrypt on bytes.  The records above stand for these byte   *)
(* strings: nonce, masked plaintext, tag.  A byte has ByteMod values; the  *)
(* tag is an injective code of key, nonce and masked plaintext (an ideal   *)
(* authenticator).                                                         *)
(***************************************************************************)
MaxPlainLen == 2     \* bytes of a plaintext
MaxSeals == 2        \* Encrypt calls in a behaviour
ByteMod == 2         \* values of a byte
KeyLen == 2          \* bytes of a key (32)
NonceSize == 2       \* bytes of a nonce (12)
TagSize == 1         \* bytes of a tag (16)

RECURSIVE BytesOfLen(_)
\* the byte strings of length n
BytesOfLen(n) ==
    IF n = 0 THEN {<<>>}
    ELSE {Append(b, x) : b \in BytesOfLen(n - 1), x \in 0..(ByteMod - 1)}

RECURSIVE Code(_)
\* an injective code of a byte string
Code(b) == IF b = <<>> THEN 0 ELSE (Head(b) + 1) + (ByteMod + 1) * Code(Tail(b))

RECURSIVE Power(_, _)
Power(x, n) == IF n = 0 THEN 1 ELSE x * Power(x, n - 1)

\* a generator that hands out one nonce again and again
NonceOfFixed(n) == [i \in 1..NonceSize |-> 0]

\* the n-th nonce that crypto/rand hands out: no value twice
NonceOf(n) == [i \in 1..NonceSize |-> (n \div Power(ByteMod, i - 1)) % ByteMod]

\* the byte of the key stream at position i
KeyStream(key, nonce, i) == (Code(key) + Code(nonce) + i) % ByteMod

\* the plaintext masked with the key stream
Mask(plaintext, key, nonce) ==
    [i \in 1..Len(plaintext) |-> (plaintext[i] + KeyStream(key, nonce, i)) % ByteMod]

\* an unmasking with the key stream one position off
UnmaskShifted(body, key, nonce) ==
    [i \in 1..Len(body) |-> (body[i] + ByteMod - KeyStream(key, nonce, i + 1)) % ByteMod]

\* the masked bytes with the key stream taken off
Unmask(body, key, nonce) ==
    [i \in 1..Len(body) |-> (body[i] + ByteMod - KeyStream(key, nonce, i)) % ByteMod]

\* the authentication tag over nonce and masked plaintext under the key
Tag(key, nonce, body) == <<Code(key \o nonce \o body)>>

\* Encrypt(plaintext, key) with the nonce it drew: nonce, masked plaintext, tag
Seal(plaintext, key, nonce) ==
    IF Len(key) # KeyLen
    THEN [ok |-> FALSE, error |-> "KeyLengthError", bytes |-> <<>>]
    ELSE [ok |-> TRUE, error |-> "",
          bytes |-> nonce \o Mask(plaintext, key, nonce)
                          \o Tag(key, nonce, Mask(plaintext, key, nonce))]

\* a Decrypt that unmasks without verifying the tag
OpenUnauthenticated(ciphertext, key) ==
    IF Len(key) # KeyLen
    THEN [ok |-> FALSE, error |-> "KeyLengthError", pt |-> <<>>]
    ELSE IF Len(ciphertext) < NonceSize + TagSize
    THEN [ok |-> FALSE, error |-> "IntegrityError", pt |-> <<>>]
    ELSE [ok |-> TRUE, error |-> "",
          pt |-> Unmask(SubSeq(ciphertext, NonceSize + 1, Len(ciphertext) - TagSize),
                        key, SubSeq(ciphertext, 1, NonceSize))]

\* Decrypt(ciphertext, key)
Open(ciphertext, key) ==
    IF Len(key) # KeyLen
    THEN [ok |-> FALSE, error |-> "KeyLengthError", pt |-> <<>>]
    ELSE IF Len(ciphertext) < NonceSize + TagSize
    THEN [ok |-> FALSE, error |-> "IntegrityError", pt |-> <<>>]
    ELSE LET nonce == SubSeq(ciphertext, 1, NonceSize)
             body == SubSeq(ciphertext, NonceSize + 1, Len(ciphertext) - TagSize)
             tag == SubSeq(ciphertext, Len(ciphertext) - TagSize + 1, Len(ciphertext))
         IN IF tag # Tag(key, nonce, body)
            THEN [ok |-> FALSE, error |-> "IntegrityError", pt |-> <<>>]
            ELSE [ok |-> TRUE, error |-> "", pt |-> Unmask(body, key, nonce)]

\* the plaintexts and the keys of the Encrypt calls: every byte string up to
\* MaxPlainLen, the empty one included; two keys of the right length and one
\* that is too short
Plaintexts == UNION {BytesOfLen(n) : n \in 0..MaxPlainLen}
SealKeys == {[i \in 1..KeyLen |-> 0], [i \in 1..KeyLen |-> 1], <<0>>}

\* base64.StdEncoding: a string is either the encoding of some bytes or malformed
Base64Encode(b) == [valid |-> TRUE, b64 |-> b]
BadBase64 == [valid |-> FALSE, b64 |-> "%%"]
EmptyString == Base64Encode("")
Base64Decode(s) ==
    IF s.valid THEN [ok |-> TRUE, bytes |-> s.b64] ELSE [ok |-> FALSE, bytes |-> s.b64]

\* values of the prf_output request field
PRFOutputs == {EmptyString, BadBase64} \cup {Base64Encode(b) : b \in PRFBytes}

(***************************************************************************)
(* State                                                                   *)
(***************************************************************************)
VARIABLES
    now,          \* time.Now(), in minutes
    uuidCtr,      \* number of uuid.New() calls so far; the n-th call returns n
    sessions,     \* sessionStore.sessions: handle -> SessionData
    users,        \* rows of table users
    credentials,  \* rows of table credentials
    req,          \* per request goroutine: position and locals of its handler
    issued,       \* history: handles handed out by a Begin call
    shown,        \* history: user ID -> recovery phrase returned by beginRegistration
    regDEK,       \* history: user ID -> DEK generated by the registration that created the user
    passCount,    \* history: handle -> number of Finish calls that passed the session check
    beginResp,    \* history: request and response of the last Begin call
    savedAt,      \* history: handle -> time of the Save that wrote the entry now in the map
    got,          \* history: the last direct SessionStore.Get, its ok result and whether
                  \* the key was in the map
    sweepDue,     \* the cleanup ticker has fired and its pass has not run yet
    swept,        \* history: handles the last pass of cleanup removed
    mu,           \* SessionStore.mu: whether a writer holds it and the number of readers
    call,         \* per goroutine calling the store under its lock: position and method
    accounts,     \* rows of table accounts
    presp,        \* history: request and response of the last protected request answered
    preq,         \* the goroutine running a protected handler with two accesses to one
                  \* table: position and locals
    plaidItems,   \* rows of table plaid_items
    plaidAccounts, \* rows of table plaid_accounts
    transactions, \* rows of table transactions
    plaidSyncs,   \* rows of table plaid_syncs, in insertion order
    sreq,         \* per request goroutine running syncTransactions: position and locals
                  \* (history: resolvable, the records processed while their account was linked)
    resolved,     \* history: provider records for which processPlaidTransaction returned nil
    syncCalls,    \* history: number of syncTransactions requests so far
    requests,     \* RateLimiter.requests: key -> times of the requests counted
    admitted,     \* history: key -> time -> number of Allow calls that returned true
    lastAllow,    \* history: the last Allow call, its time and its result
    rng,          \* number of nonces that crypto/rand has handed to Encrypt
    sealLog,      \* history: the Encrypt calls that returned a ciphertext, in order
    generated,    \* history: the last call of GenerateRecoveryPhrase, its entropy and result
    enrolled,     \* the recovery phrase in use: its hash, the salt and the key derived from it
    attempt,      \* history: the last phrase typed in, whether it verified and its key
    dashboard,    \* the Dashboard component running handleSyncTransactions
    jwtNow,       \* time.Now(), in quarter hours
    jwts,         \* history: the tokens issued, with their registered claims
    jwtResp       \* history: the token presented at the present time and whether
                  \* jwtMiddleware let it through

authVars == <<now, uuidCtr, sessions, users, credentials, req, issued, shown, regDEK, passCount,
              beginResp, savedAt>>
storeVars == <<got, sweepDue, swept>>
lockVars == <<mu, call>>
acctVars == <<accounts, presp, preq>>
rateVars == <<requests, admitted, lastAllow>>
cryptoVars == <<rng, sealLog>>
phraseVars == <<generated, enrolled, attempt>>
jwtVars == <<jwtNow, jwts, jwtResp>>
loopVars == <<dashboard>>
syncVars == <<plaidItems, plaidAccounts, transactions, plaidSyncs, sreq, resolved, syncCalls>>

NoCiphertext == [nonce |-> NoValue, key |-> <<NoValue, NoValue, NoValue>>, pt |-> NoValue]
NoUser == [ID |-> 0, Username |-> "", EncryptedDEK |-> NoCiphertext, DEKSalt |-> NoValue,
           RecoveryPhraseHash |-> <<"sha256", <<>>>>]
NoSession == [Username |-> "", UserID |-> 0, ExpiresAt |-> 0]
NoCred == [ID |-> NoValue, UserID |-> 0, SignCount |-> 0]
NoToken == [UserID |-> 0, EncryptedDEK |-> Base64Encode(NoCiphertext)]

\* no Begin call yet
NoBeginResp == [op |-> "none", Username |-> "", status |-> 0, error |-> ""]

\* an Authorization header that is absent, and one that is not a Bearer token
NoAuthorization == [scheme |-> "", signed |-> FALSE, expired |-> FALSE, claims |-> NoToken]
BasicAuthorization == [NoAuthorization EXCEPT !.scheme = "Basic"]

\* a claims.UserID that uuid.Parse rejects
BadUserID == -1

\* no protected request answered yet
NoProtResp ==
    [op |-> "none", auth |-> NoAuthorization, id |-> 0, status |-> 0, error |-> "",
     body |-> {}]

\* the goroutine of the two-access handlers runs none
IdleProt ==
    [pc |-> "idle", auth |-> NoAuthorization, id |-> 0, item |-> NoValue, name |-> "",
     dek |-> NoValue]

(***************************************************************************)
(* RateLimiter: data                                                       *)
(***************************************************************************)
RateLimit == 2       \* RateLimiter.limit
RateWindow == 2      \* RateLimiter.window, in minutes
MaxRateTime == 3     \* the clock of the rate limiter stops here

\* the keys of the limiter: client addresses
RateKeys == {"10.0.0.1", "10.0.0.2"}

\* no Allow call yet
NoAllow == [key |-> "", ok |-> FALSE]

\* NewRateLimiter: an empty map
NewRateLimiter ==
    /\ requests = <<>>
    /\ admitted = [key \in RateKeys |-> [t \in 0..MaxRateTime |-> 0]]
    /\ lastAllow = NoAllow

\* no token was presented at the present time
NoJWTResp == [made |-> FALSE, age |-> 0, ok |-> FALSE]

\* the Dashboard component before a click on "Sync": syncingItem is null
NoDashboard == [pc |-> "idle", syncingItem |-> "none", clicked |-> FALSE, error |-> ""]

\* no recovery phrase was generated, none is in use and none was typed in
NoGenerated == [entropy |-> <<>>, phrase |-> <<>>]
NoEnrolled == [set |-> FALSE, phrase |-> <<>>, hash |-> <<>>, salt |-> "", key |-> <<>>]
NoAttempt == [made |-> FALSE, phrase |-> <<>>, ok |-> FALSE, key |-> <<>>]

\* table accounts is empty, no protected request was made, the rate limiter
\* is new, nothing was encrypted and no recovery phrase was handled
NoAccounts ==
    /\ dashboard = NoDashboard
    /\ jwtNow = 0
    /\ jwts = {}
    /\ jwtResp = NoJWTResp
    /\ generated = NoGenerated
    /\ enrolled = NoEnrolled
    /\ attempt = NoAttempt
    /\ NewRateLimiter
    /\ rng = 0
    /\ sealLog = <<>>
    /\ accounts = {}
    /\ presp = NoProtResp
    /\ preq = IdleProt

\* a goroutine that runs no handler
IdleReq ==
    [pc |-> "idle", op |-> "none", SessionID |-> 0, deferred |-> FALSE,
     sessionData |-> NoSession, prf |-> EmptyString, user |-> NoUser, cred |-> NoCred,
     stored |-> 0, reported |-> 0,
     status |-> 0, error |-> "", token |-> NoToken]

\* the credential field of a Finish request, as the WebAuthn library sees it:
\* its shape, whether it answers the challenge of the presented session,
\* whether its signature or attestation verifies, and the authenticator data
CredentialResponses ==
    {r \in [type : {"create", "get", "garbage"}, chalOK : BOOLEAN, sig : BOOLEAN,
            ID : CredIDs, SignCount : SignCounts] :
        \/ r.type # "garbage" /\ r.chalOK /\ r.sig
        \/ r.ID = "credA" /\ r.SignCount = 0 /\ ~(r.chalOK /\ r.sig)}

\* responses of an authenticator that has just created its credential
NewCredentialResponses == {r \in CredentialResponses : r.SignCount <= MaxNewSignCount}

(***************************************************************************)
(* SessionStore                                                            *)
(***************************************************************************)
\* SessionStore.Save
Save(store, key, username, userID, t) ==
    [k \in DOMAIN store \cup {key} |->
        IF k = key
        THEN [Username |-> username, UserID |-> userID, ExpiresAt |-> t + SessionTTL]
        ELSE store[k]]

\* a Get that reports every entry of the map, expired or not
GetPresent(store, key, t) == key \in DOMAIN store

\* SessionStore.Get: the ok result
Get(store, key, t) == key \in DOMAIN store /\ ~(t > store[key].ExpiresAt)

\* a Delete that empties the map
DeleteAll(store, key) == [k \in {} |-> NoSession]

\* SessionStore.Delete
Delete(store, key) == [k \in DOMAIN store \ {key} |-> store[k]]

\* a pass that removes an entry only a further lifetime after its expiry
SweepStale(store, t) ==
    [k \in {x \in DOMAIN store : ~(t > store[x].ExpiresAt + SessionTTL)} |-> store[k]]

\* one pass of SessionStore.cleanup
Sweep(store, t) == [k \in {x \in DOMAIN store : ~(t > store[x].ExpiresAt)} |-> store[k]]

\* no direct Get yet
NoGot == [key |-> 0, ok |-> FALSE, present |-> FALSE]

\* the goroutines that call the store: the request goroutines and the
\* cleanup goroutine
Callers == 1..NumCallers
Sweeper == 0
Goroutines == Callers \cup {Sweeper}

\* a goroutine outside the store
IdleCall == [pc |-> "idle", kind |-> "none"]

\* a goroutine between the locking and the unlocking of method kind
LockedCall(kind) == [pc |-> "locked", kind |-> kind]

\* NewSessionStore: an empty map and an unlocked mutex; the cleanup ticker
\* has not fired yet
NewSessionStore ==
    /\ sessions = <<>>
    /\ savedAt = <<>>
    /\ got = NoGot
    /\ sweepDue = FALSE
    /\ swept = {}
    /\ mu = [writer |-> FALSE, readers |-> 0]
    /\ call = [g \in Goroutines |-> IdleCall]

\* the save times after a step: an entry the step wrote was saved now, an
\* entry it left alone keeps its time, an entry it removed has none
SaveTimes ==
    [k \in DOMAIN sessions' |->
        IF k \in DOMAIN sessions /\ sessions'[k] = sessions[k] THEN savedAt[k] ELSE now]

(***************************************************************************)
(* UserRepository                                                          *)
(***************************************************************************)
\* UserRepository.GetByUsername: the matching rows (none: ErrNotFound)
GetByUsername(username) == {u \in users : u.Username = username}

\* UserRepository.GetCredentialsByUserID
GetCredentialsByUserID(userID) == {c \in credentials : c.UserID = userID}

\* an INSERT INTO users that is held back by the primary key only
CanCreateUserByID(user) == \A u \in users : u.ID # user.ID

\* INSERT INTO users: primary key id, username UNIQUE
CanCreateUser(user) ==
    \A u \in users : u.ID # user.ID /\ u.Username # user.Username

\* INSERT INTO credentials: primary key id, user_id REFERENCES users(id)
CanCreateCredential(cred) ==
    /\ \A c \in credentials : c.ID # cred.ID
    /\ \E u \in users : u.ID = cred.UserID

\* UPDATE credentials SET sign_count = $1 WHERE id = $2
UpdateCredentialSignCount(creds, credID, signCount) ==
    {IF c.ID = credID THEN [c EXCEPT !.SignCount = signCount] ELSE c : c \in creds}

(***************************************************************************)
(* Pure parts of the handlers                                              *)
(***************************************************************************)
\* a generateJWT that embeds a wrapped DEK of its own instead of the one passed
generateJWTRewrapped(user, encryptedDEK) ==
    [UserID |-> user.ID,
     EncryptedDEK |-> Base64Encode([encryptedDEK EXCEPT !.nonce = NoValue])]

\* Server.generateJWT: the claims carried by the token
generateJWT(user, encryptedDEK) ==
    [UserID |-> user.ID, EncryptedDEK |-> Base64Encode(encryptedDEK)]

\* Server.decryptDEK
decryptDEK(encryptedDEKB64, user) ==
    LET decoded == Base64Decode(encryptedDEKB64) IN
    IF ~decoded.ok THEN [ok |-> FALSE, pt |-> NoValue]
    ELSE DecryptDEK(decoded.bytes, DeriveKeyFromSecret(PlaceholderSecret, user.DEKSalt))

\* webauthn Authenticator.UpdateCounter, called by ValidateLogin: the sign
\* count of the returned credential; a counter that did not increase only
\* sets CloneWarning and leaves the count as stored
UpdateCounter(signCount, authDataCount) ==
    IF authDataCount <= signCount /\ (authDataCount # 0 \/ signCount # 0)
    THEN signCount
    ELSE authDataCount

\* webauthn ValidateLogin: the error result
ValidateLoginOK(user, creds, sessionData, parsed) ==
    /\ user.ID = sessionData.UserID
    /\ \E c \in creds : c.ID = parsed.ID
    /\ parsed.chalOK
    /\ parsed.sig

\* result of a handler: the slot waits for its return step
Respond(r, status, error) ==
    [IdleReq EXCEPT !.pc = "return", !.op = r.op, !.SessionID = r.SessionID,
                    !.deferred = r.deferred, !.status = status, !.error = error]

\* lines 215-231 and 312-328: the AuthResponse with the token for r.user
RespondToken(r) ==
    [Respond(r, 200, "") EXCEPT !.token = generateJWT(r.user, r.user.EncryptedDEK),
                                !.cred = r.cred, !.stored = r.stored,
                                !.reported = r.reported]

(***************************************************************************)
(* Plaid transaction sync: data                                            *)
(***************************************************************************)
NumSyncReq == 2      \* request goroutines running syncTransactions
MaxSyncs == 2        \* syncTransactions requests in a behaviour
NumBatches == 2      \* batches the provider holds for the item

SyncReqs == 1..NumSyncReq
ItemIDs == {"item1"}
\* the account_id values of the provider's records, in the order of a batch
PlaidAccountIDs == <<"acc1", "acc2">>
OwnUAccountIDs == {"ownu1"}
AccessToken == "access-token"
TransportError == "failed to sync transactions"

\* the n-th batch of the provider: one added record per provider account
Batch(n) ==
    [i \in 1..Len(PlaidAccountIDs) |->
        [TransactionID |-> <<n, i>>, AccountID |-> PlaidAccountIDs[i], batch |-> n]]

\* Service.SyncTransactions, the successful result: the fields of the
\* provider's response for the cursor.  A cursor is the number of batches
\* consumed, 0 being the empty string.
SyncTransactionsResult(cursor) ==
    IF cursor < NumBatches
    THEN [Added |-> Batch(cursor + 1), Modified |-> <<>>, Removed |-> <<>>,
          NextCursor |-> cursor + 1, HasMore |-> cursor + 1 < NumBatches]
    ELSE [Added |-> <<>>, Modified |-> <<>>, Removed |-> <<>>,
          NextCursor |-> cursor, HasMore |-> FALSE]

NoItem == [ID |-> NoValue, UserID |-> 0, EncryptedAccessToken |-> NoCiphertext, Cursor |-> 0]
NoResult == [Added |-> <<>>, Modified |-> <<>>, Removed |-> <<>>, NextCursor |-> 0,
             HasMore |-> FALSE]

\* lines 523-528: the SyncTransactionsResponse for the count of processed
\* records and the provider's result
SyncTransactionsResponse(addedCount, result) ==
    [AddedCount |-> addedCount, ModifiedCount |-> Len(result.Modified),
     RemovedCount |-> Len(result.Removed), HasMore |-> result.HasMore]

NoResponse == SyncTransactionsResponse(0, NoResult)

\* a goroutine that runs no sync
IdleSync ==
    [pc |-> "idle", UserID |-> 0, item |-> NoItem, dek |-> NoValue, result |-> NoResult,
     next |-> 1, addedCount |-> 0, resolvable |-> 0, calls |-> 0, failed |-> FALSE,
     status |-> 0, error |-> "", response |-> NoResponse]

\* PlaidRepository.GetItemByID: the matching rows (none: error)
GetItemByID(id) == {it \in plaidItems : it.ID = id}

\* UserRepository.GetByID: the matching rows (none: ErrNotFound)
GetByID(id) == {u \in users : u.ID = id}

\* PlaidRepository.UpdateItemCursor
UpdateItemCursor(items, id, cursor) ==
    {IF it.ID = id THEN [it EXCEPT !.Cursor = cursor] ELSE it : it \in items}

\* PlaidRepository.LinkAccountToOwnUAccount
LinkAccountToOwnUAccount(rows, plaidAccountID, ownuAccountID) ==
    {IF a.ID = plaidAccountID THEN [a EXCEPT !.AccountID = ownuAccountID] ELSE a :
        a \in rows}

\* lines 539-550 of processPlaidTransaction: the linked OwnU rows of the
\* record's provider account (none: "no linked account")
LinkedAccounts(rows, txn) ==
    {a.AccountID : a \in {x \in rows :
        x.PlaidAccountID = txn.AccountID /\ x.AccountID # NoValue}}

\* result of syncTransactions: the slot waits for its return step
SyncRespond(r, status, error) ==
    [IdleSync EXCEPT !.pc = "return", !.UserID = r.UserID, !.item = r.item,
                     !.calls = r.calls, !.failed = r.failed, !.addedCount = r.addedCount,
                     !.resolvable = r.resolvable,
                     !.status = status, !.error = error]

\* no Plaid item is linked
NoPlaid ==
    /\ plaidItems = {}
    /\ plaidAccounts = {}
    /\ transactions = {}
    /\ plaidSyncs = <<>>
    /\ sreq = [p \in SyncReqs |-> IdleSync]
    /\ resolved = {}
    /\ syncCalls = 0

(***************************************************************************)
(* Initial state: empty store and database                                 *)
(***************************************************************************)
AuthInit ==
    /\ now = 0
    /\ uuidCtr = 0
    /\ NewSessionStore
    /\ users = {}
    /\ credentials = {}
    /\ req = [p \in Reqs |-> IdleReq]
    /\ issued = {}
    /\ shown = <<>>
    /\ regDEK = <<>>
    /\ passCount = [h \in {0} \cup UUIDs |-> 0]
    /\ beginResp = NoBeginResp
    /\ NoAccounts
    /\ NoPlaid

(***************************************************************************)
(* Clock and background sweep                                              *)
(***************************************************************************)
Tick ==
    /\ now + TickStep <= MaxTime
    /\ now' = now + TickStep
    /\ UNCHANGED <<syncVars, cryptoVars, phraseVars, jwtVars, loopVars, rateVars, acctVars, lockVars, storeVars, beginResp, uuidCtr, sessions, savedAt, users, credentials, req, issued, shown, regDEK, passCount>>

\* SessionStore.cleanup: a ticker pass that finds something to delete
cleanup ==
    /\ \E k \in DOMAIN sessions : now > sessions[k].ExpiresAt
    /\ sessions' = Sweep(sessions, now)
    /\ savedAt' = SaveTimes
    /\ swept' = DOMAIN sessions \ DOMAIN sessions'
    /\ UNCHANGED <<syncVars, cryptoVars, phraseVars, jwtVars, loopVars, rateVars, acctVars, lockVars, got, sweepDue, beginResp, now, uuidCtr, users, credentials, req, issued, shown, regDEK, passCount>>

(***************************************************************************)
(* beginRegistration and beginLogin, each a single step: the user lookup    *)
(* and, on success, the Save of the ceremony.                              *)
(***************************************************************************)
\* the response of a Begin handler
BeginResponse(op, username, status, error) ==
    [op |-> op, Username |-> username, status |-> status, error |-> error]

\* a Begin handler that stores the ceremony before it looks at the username
beginRegistrationSavingFirst(username, dbOK) ==
    /\ Cardinality(DOMAIN shown) < MaxRegistrations
    /\ sessions' = Save(sessions, uuidCtr + 2, username, uuidCtr + 1, now)
    /\ savedAt' = SaveTimes
    /\ issued' = issued \cup {uuidCtr + 2}
    /\ uuidCtr' = uuidCtr + 2
    /\ \E recoveryPhrase \in RecoveryPhrases :
          shown' = [k \in DOMAIN shown \cup {uuidCtr + 1} |->
                       IF k = uuidCtr + 1 THEN recoveryPhrase ELSE shown[k]]
    /\ beginResp' =
          IF username = ""
          THEN BeginResponse("beginRegistration", username, 400, "username is required")
          ELSE IF dbOK /\ GetByUsername(username) # {}
          THEN BeginResponse("beginRegistration", username, 409, "username already exists")
          ELSE IF ~dbOK
          THEN BeginResponse("beginRegistration", username, 500, "database error")
          ELSE BeginResponse("beginRegistration", username, 200, "")
    /\ UNCHANGED <<syncVars, cryptoVars, phraseVars, jwtVars, loopVars, rateVars, acctVars, lockVars, storeVars, now, users, credentials, req, regDEK, passCount>>

\* lines 62-112
beginRegistration(username, dbOK) ==
    /\ IF username = ""
       THEN /\ beginResp' = BeginResponse("beginRegistration", username, 400,
                                          "username is required")
            /\ UNCHANGED <<uuidCtr, sessions, savedAt, issued, shown>>
       ELSE IF dbOK /\ GetByUsername(username) # {}
       THEN /\ beginResp' = BeginResponse("beginRegistration", username, 409,
                                          "username already exists")
            /\ UNCHANGED <<uuidCtr, sessions, savedAt, issued, shown>>
       ELSE IF ~dbOK
       THEN /\ beginResp' = BeginResponse("beginRegistration", username, 500,
                                          "database error")
            /\ UNCHANGED <<uuidCtr, sessions, savedAt, issued, shown>>
       ELSE /\ Cardinality(DOMAIN shown) < MaxRegistrations
            /\ \E recoveryPhrase \in RecoveryPhrases :
                LET tempUserID == uuidCtr + 1
                    sessionID == uuidCtr + 2
                IN /\ sessions' = Save(sessions, sessionID, username, tempUserID, now)
                   /\ savedAt' = SaveTimes
                   /\ shown' = [k \in DOMAIN shown \cup {tempUserID} |->
                                  IF k = tempUserID THEN recoveryPhrase ELSE shown[k]]
                   /\ issued' = issued \cup {sessionID}
                   /\ uuidCtr' = uuidCtr + 2
                   /\ beginResp' = BeginResponse("beginRegistration", username, 200, "")
    /\ UNCHANGED <<syncVars, cryptoVars, phraseVars, jwtVars, loopVars, rateVars, acctVars, lockVars, storeVars, now, users, credentials, req, regDEK, passCount>>

\* a Begin handler that stores a ceremony for a username without asking
\* whether the user exists
beginLoginWithoutUser(username, dbOK) ==
    /\ Cardinality(issued) - Cardinality(DOMAIN shown) < MaxLogins
    /\ sessions' = Save(sessions, uuidCtr + 1, username, 0, now)
    /\ savedAt' = SaveTimes
    /\ issued' = issued \cup {uuidCtr + 1}
    /\ uuidCtr' = uuidCtr + 1
    /\ beginResp' =
          IF GetByUsername(username) = {}
          THEN BeginResponse("beginLogin", username, 404, "user not found")
          ELSE BeginResponse("beginLogin", username, 200, "")
    /\ UNCHANGED <<syncVars, cryptoVars, phraseVars, jwtVars, loopVars, rateVars, acctVars, lockVars, storeVars, now, users, credentials, req, shown, regDEK, passCount>>

\* lines 234-268
beginLogin(username, dbOK) ==
    /\ IF username = ""
       THEN /\ beginResp' = BeginResponse("beginLogin", username, 400,
                                          "username is required")
            /\ UNCHANGED <<uuidCtr, sessions, savedAt, issued>>
       ELSE IF dbOK /\ GetByUsername(username) = {}
       THEN /\ beginResp' = BeginResponse("beginLogin", username, 404, "user not found")
            /\ UNCHANGED <<uuidCtr, sessions, savedAt, issued>>
       ELSE IF ~dbOK
       THEN /\ beginResp' = BeginResponse("beginLogin", username, 500, "database error")
            /\ UNCHANGED <<uuidCtr, sessions, savedAt, issued>>
       ELSE \E user \in GetByUsername(username) :
            \* webauthn BeginLogin fails for a user without credentials
            IF GetCredentialsByUserID(user.ID) = {}
            THEN /\ beginResp' = BeginResponse("beginLogin", username, 500,
                                               "failed to begin login")
                 /\ UNCHANGED <<uuidCtr, sessions, savedAt, issued>>
            ELSE /\ Cardinality(issued) - Cardinality(DOMAIN shown) < MaxLogins
                 /\ sessions' = Save(sessions, uuidCtr + 1, user.Username, user.ID, now)
                 /\ savedAt' = SaveTimes
                 /\ issued' = issued \cup {uuidCtr + 1}
                 /\ uuidCtr' = uuidCtr + 1
                 /\ beginResp' = BeginResponse("beginLogin", username, 200, "")
    /\ UNCHANGED <<syncVars, cryptoVars, phraseVars, jwtVars, loopVars, rateVars, acctVars, lockVars, storeVars, now, users, credentials, req, shown, regDEK, passCount>>

(***************************************************************************)
(* finishRegistration                                                      *)
(***************************************************************************)
\* lines 134-148 and 163-167: the early returns of the local work between
\* the session check and userRepo.Create
RegistrationLocals(r, credential, prf) ==
    IF credential.type # "create"
    THEN Respond(r, 400, "failed to parse credential")
    ELSE IF ~(credential.chalOK /\ credential.sig)
    THEN Respond(r, 400, "failed to verify credential")
    ELSE IF prf # EmptyString /\ ~Base64Decode(prf).ok
    THEN Respond(r, 400, "invalid PRF output")
    ELSE [r EXCEPT
            !.pc = "create_user",
            !.prf = prf,
            !.cred = [ID |-> credential.ID,
                      UserID |-> r.sessionData.UserID,
                      SignCount |-> credential.SignCount]]

\* lines 115-148: session check, then parsing and verification of the
\* credential
finishRegistration(p, sid, credential, prf) ==
    /\ req[p].pc = "idle"
    /\ LET r == [IdleReq EXCEPT !.op = "finishRegistration", !.SessionID = sid] IN
       IF ~Get(sessions, sid, now)
       THEN /\ req' = [req EXCEPT ![p] = Respond(r, 400, "session expired or invalid")]
            /\ UNCHANGED passCount
       ELSE /\ req' = [req EXCEPT ![p] =
                  RegistrationLocals([r EXCEPT !.deferred = TRUE,
                                               !.sessionData = sessions[sid]],
                                     credential, prf)]
            /\ passCount' = [passCount EXCEPT ![sid] = @ + 1]
    /\ UNCHANGED <<syncVars, cryptoVars, phraseVars, jwtVars, loopVars, rateVars, acctVars, lockVars, storeVars, beginResp, now, uuidCtr, sessions, savedAt, users, credentials, issued, shown, regDEK>>

\* a user record that keeps the DEK itself in a column of the row
NewUserPlainDEK(sessionData, prf, dek, salt, nonce, tempSecret, recoveryPhrase) ==
    [ID |-> sessionData.UserID,
     Username |-> sessionData.Username,
     EncryptedDEK |-> EncryptDEK(dek, DeriveKeyFromSecret(tempSecret, salt), nonce),
     DEKSalt |-> dek,
     RecoveryPhraseHash |-> HashRecoveryPhrase(recoveryPhrase)]

\* lines 150-195: the user record for given outcomes of GenerateDEK,
\* GenerateSalt, GenerateRandomHex, the nonce of Encrypt and
\* GenerateRecoveryPhrase
NewUser(sessionData, prf, dek, salt, nonce, tempSecret, recoveryPhrase) ==
    LET kek == IF prf # EmptyString
               THEN DeriveKeyFromSecret(Base64Decode(prf).bytes, salt)
               ELSE DeriveKeyFromSecret(tempSecret, salt)
    IN [ID |-> sessionData.UserID,
        Username |-> sessionData.Username,
        EncryptedDEK |-> EncryptDEK(dek, kek, nonce),
        DEKSalt |-> salt,
        RecoveryPhraseHash |-> HashRecoveryPhrase(recoveryPhrase)]

\* lines 150-199: key generation and userRepo.Create.  The random values are
\* local to the handler until this insert, so they are drawn here.
createUser(p, dbOK) ==
    /\ req[p].pc = "create_user"
    /\ \E dek \in DEKs, salt \in Salts, nonce \in Nonces,
          tempSecret \in TempSecrets, recoveryPhrase \in RecoveryPhrases :
        LET user == NewUser(req[p].sessionData, req[p].prf, dek, salt, nonce,
                            tempSecret, recoveryPhrase)
        IN IF dbOK /\ CanCreateUser(user)
           THEN /\ users' = users \cup {user}
                /\ regDEK' = [k \in DOMAIN regDEK \cup {user.ID} |->
                                IF k = user.ID THEN dek ELSE regDEK[k]]
                /\ req' = [req EXCEPT ![p].pc = "create_cred", ![p].user = user]
           ELSE /\ req' = [req EXCEPT ![p] = Respond(@, 500, "failed to create user")]
                /\ UNCHANGED <<users, regDEK>>
    /\ UNCHANGED <<syncVars, cryptoVars, phraseVars, jwtVars, loopVars, rateVars, acctVars, lockVars, storeVars, beginResp, now, uuidCtr, sessions, savedAt, credentials, issued, shown, passCount>>

\* lines 201-231: userRepo.CreateCredential, then the token
createCredential(p, dbOK) ==
    /\ req[p].pc = "create_cred"
    /\ IF dbOK /\ CanCreateCredential(req[p].cred)
       THEN /\ credentials' = credentials \cup {req[p].cred}
            /\ req' = [req EXCEPT ![p] = RespondToken(@)]
       ELSE /\ req' = [req EXCEPT ![p] = Respond(@, 500, "failed to save credential")]
            /\ UNCHANGED credentials
    /\ UNCHANGED <<syncVars, cryptoVars, phraseVars, jwtVars, loopVars, rateVars, acctVars, lockVars, storeVars, beginResp, now, uuidCtr, sessions, savedAt, users, issued, shown, regDEK, passCount>>

(***************************************************************************)
(* finishLogin                                                             *)
(***************************************************************************)
\* lines 271-282: session check
finishLogin(p, sid) ==
    /\ req[p].pc = "idle"
    /\ LET r == [IdleReq EXCEPT !.op = "finishLogin", !.SessionID = sid] IN
       IF ~Get(sessions, sid, now)
       THEN /\ req' = [req EXCEPT ![p] = Respond(r, 400, "session expired or invalid")]
            /\ UNCHANGED passCount
       ELSE /\ req' = [req EXCEPT ![p] = [r EXCEPT !.pc = "get_user", !.deferred = TRUE,
                                                   !.sessionData = sessions[sid]]]
            /\ passCount' = [passCount EXCEPT ![sid] = @ + 1]
    /\ UNCHANGED <<syncVars, cryptoVars, phraseVars, jwtVars, loopVars, rateVars, acctVars, lockVars, storeVars, beginResp, now, uuidCtr, sessions, savedAt, users, credentials, issued, shown, regDEK>>

\* lines 291-305 for the user row and credential rows just read
LoginLocals(r, user, creds, credential) ==
    IF credential.type # "get"
    THEN Respond(r, 400, "failed to parse credential")
    ELSE IF ~ValidateLoginOK(user, creds, r.sessionData, credential)
    THEN Respond(r, 401, "authentication failed")
    ELSE LET c == CHOOSE x \in creds : x.ID = credential.ID IN
         [r EXCEPT !.pc = "update_count",
                   !.user = user,
                   !.stored = c.SignCount,
                   !.reported = credential.SignCount,
                   !.cred = [c EXCEPT !.SignCount = UpdateCounter(c.SignCount, credential.SignCount)]]

\* lines 284-305: userRepo.GetByUsername, then parsing and ValidateLogin
getUser(p, credential, dbOK) ==
    /\ req[p].pc = "get_user"
    /\ LET found == GetByUsername(req[p].sessionData.Username) IN
       IF ~dbOK \/ found = {}
       THEN req' = [req EXCEPT ![p] = Respond(@, 500, "failed to get user")]
       ELSE \E user \in found :
              req' = [req EXCEPT ![p] =
                  LoginLocals(@, user, GetCredentialsByUserID(user.ID), credential)]
    /\ UNCHANGED <<syncVars, cryptoVars, phraseVars, jwtVars, loopVars, rateVars, acctVars, lockVars, storeVars, beginResp, now, uuidCtr, sessions, savedAt, users, credentials, issued, shown, regDEK, passCount>>

\* lines 307-328: userRepo.UpdateCredentialSignCount (its error is dropped),
\* then the token
updateSignCount(p, dbOK) ==
    /\ req[p].pc = "update_count"
    /\ credentials' = IF dbOK
                      THEN UpdateCredentialSignCount(credentials, req[p].cred.ID,
                                                     req[p].cred.SignCount)
                      ELSE credentials
    /\ req' = [req EXCEPT ![p] = RespondToken(@)]
    /\ UNCHANGED <<syncVars, cryptoVars, phraseVars, jwtVars, loopVars, rateVars, acctVars, lockVars, storeVars, beginResp, now, uuidCtr, sessions, savedAt, users, issued, shown, regDEK, passCount>>

\* return of a Finish handler: the deferred sessionStore.Delete, if
\* registered, runs now
return(p) ==
    /\ req[p].pc = "return"
    /\ sessions' = IF req[p].deferred THEN Delete(sessions, req[p].SessionID) ELSE sessions
    /\ savedAt' = SaveTimes
    /\ req' = [req EXCEPT ![p] = IdleReq]
    /\ UNCHANGED <<syncVars, cryptoVars, phraseVars, jwtVars, loopVars, rateVars, acctVars, lockVars, storeVars, beginResp, now, uuidCtr, users, credentials, issued, shown, regDEK, passCount>>

(***************************************************************************)
(* syncTransactions.  The requests come through jwtMiddleware, which puts  *)
(* the token's user ID and encrypted DEK into the context.                 *)
(***************************************************************************)
\* lines 443-471 for the item rows and user rows just read
SyncLocals(r, token, items, found) ==
    IF items = {}
    THEN SyncRespond(r, 404, "item not found")
    ELSE LET item == CHOOSE it \in items : TRUE IN
         IF item.UserID # token.UserID
         THEN SyncRespond(r, 403, "access denied")
         ELSE IF found = {}
         THEN SyncRespond(r, 500, "failed to get user")
         ELSE LET user == CHOOSE u \in found : TRUE
                  dek == decryptDEK(token.EncryptedDEK, user)
              IN IF ~dek.ok
                 THEN SyncRespond(r, 500, "failed to decrypt key")
                 ELSE IF ~Decrypt(item.EncryptedAccessToken, dek.pt).ok
                 THEN SyncRespond(r, 500, "failed to decrypt access token")
                 ELSE [r EXCEPT !.pc = "provider", !.item = item, !.dek = dek.pt]

\* lines 421-471: plaidRepo.GetItemByID, the ownership check, userRepo.GetByID
\* and the two decryptions
syncTransactions(p, token, itemID, dbOK) ==
    /\ sreq[p].pc = "idle"
    \* goroutines are interchangeable: a request takes the first free one
    /\ \A q \in SyncReqs : q < p => sreq[q].pc # "idle"
    /\ syncCalls < MaxSyncs
    /\ syncCalls' = syncCalls + 1
    /\ sreq' = [sreq EXCEPT ![p] =
          SyncLocals([IdleSync EXCEPT !.UserID = token.UserID], token,
                     IF dbOK THEN GetItemByID(itemID) ELSE {},
                     GetByID(token.UserID))]
    /\ UNCHANGED <<authVars, cryptoVars, phraseVars, jwtVars, loopVars, rateVars, acctVars, lockVars, storeVars, plaidItems, plaidAccounts, transactions, plaidSyncs, resolved>>

\* line 474: the one call of plaid.SyncTransactions, with the cursor read at
\* the start of the request
SyncTransactions(p, ok) ==
    /\ sreq[p].pc = "provider"
    /\ LET r == [sreq[p] EXCEPT !.calls = sreq[p].calls + 1]
           result == SyncTransactionsResult(r.item.Cursor)
       IN sreq' = [sreq EXCEPT ![p] =
             IF ok
             THEN [r EXCEPT !.result = result,
                            !.pc = IF Len(result.Added) = 0 THEN "update_cursor"
                                   ELSE "process"]
             ELSE [r EXCEPT !.failed = TRUE, !.pc = "record_failure"]]
    /\ UNCHANGED <<authVars, cryptoVars, phraseVars, jwtVars, loopVars, rateVars, acctVars, lockVars, storeVars, plaidItems, plaidAccounts, transactions, plaidSyncs,
                   resolved, syncCalls>>

\* the PlaidSync row of a failed sync, lines 477-483
FailedSync(r) ==
    [PlaidItemID |-> r.item.ID, UserID |-> r.UserID, AddedCount |-> 0,
     CursorBefore |-> r.item.Cursor, CursorAfter |-> 0, ErrorMessage |-> TransportError]

\* the PlaidSync row of a successful sync, lines 511-520
SuccessfulSync(r) ==
    [PlaidItemID |-> r.item.ID, UserID |-> r.UserID, AddedCount |-> r.addedCount,
     CursorBefore |-> r.item.Cursor, CursorAfter |-> r.result.NextCursor,
     ErrorMessage |-> ""]

\* PlaidRepository.CreateSync
CreateSync(syncs, sync) == Append(syncs, sync)

\* plaid_syncs.plaid_item_id REFERENCES plaid_items(id): the insert fails for an
\* item whose row is gone
CanCreateSync(sync) == \E it \in plaidItems : it.ID = sync.PlaidItemID

\* a failure branch that also stores the cursor the request had read, moved
\* past the batch it asked for
createFailedSyncAdvancing(p, dbOK) ==
    /\ sreq[p].pc = "record_failure"
    /\ plaidSyncs' = IF dbOK /\ CanCreateSync(FailedSync(sreq[p]))
                     THEN CreateSync(plaidSyncs, FailedSync(sreq[p])) ELSE plaidSyncs
    /\ plaidItems' = UpdateItemCursor(plaidItems, sreq[p].item.ID, sreq[p].item.Cursor + 1)
    /\ sreq' = [sreq EXCEPT ![p] = SyncRespond(sreq[p], 500, TransportError)]
    /\ UNCHANGED <<authVars, cryptoVars, phraseVars, jwtVars, loopVars, rateVars, acctVars, lockVars, storeVars, plaidAccounts, transactions, resolved, syncCalls>>

\* lines 475-489: the provider call failed; plaidRepo.CreateSync (its error
\* is dropped), then the error response
createFailedSync(p, dbOK) ==
    /\ sreq[p].pc = "record_failure"
    /\ plaidSyncs' = IF dbOK /\ CanCreateSync(FailedSync(sreq[p]))
                     THEN CreateSync(plaidSyncs, FailedSync(sreq[p])) ELSE plaidSyncs
    /\ sreq' = [sreq EXCEPT ![p] = SyncRespond(sreq[p], 500, TransportError)]
    /\ UNCHANGED <<authVars, cryptoVars, phraseVars, jwtVars, loopVars, rateVars, acctVars, lockVars, storeVars, plaidItems, plaidAccounts, transactions, resolved, syncCalls>>

\* lines 577-585 of processPlaidTransaction: the transaction it builds for a
\* record, stored under a fresh uuid
TransactionRow(id, userID, linkedAccountID, txn, dek, nonce) ==
    [ID |-> id, UserID |-> userID, AccountID |-> linkedAccountID,
     EncryptedData |-> Encrypt(txn.TransactionID, dek, nonce)]

\* an iteration that inserts the transaction it built
processPlaidTransactionStoring(p, dbOK) ==
    /\ sreq[p].pc = "process"
    /\ LET r == sreq[p]
           txn == r.result.Added[r.next]
           linked == LinkedAccounts(plaidAccounts, txn)
           ok == dbOK /\ linked # {}
           last == r.next = Len(r.result.Added)
       IN /\ sreq' = [sreq EXCEPT ![p] =
                [r EXCEPT !.next = r.next + 1,
                          !.resolvable = IF linked # {} THEN r.resolvable + 1
                                         ELSE r.resolvable,
                          !.addedCount = IF ok THEN r.addedCount + 1 ELSE r.addedCount,
                          !.pc = IF last THEN "update_cursor" ELSE "process"]]
          /\ resolved' = IF ok THEN resolved \cup {txn} ELSE resolved
          /\ transactions' =
                IF ok
                THEN transactions \cup
                       {TransactionRow(Cardinality(transactions) + 1, r.UserID,
                                       CHOOSE a \in linked : TRUE, txn, r.dek, "n1")}
                ELSE transactions
    /\ UNCHANGED <<authVars, cryptoVars, phraseVars, jwtVars, loopVars, rateVars, acctVars, lockVars, storeVars, plaidItems, plaidAccounts, plaidSyncs, syncCalls>>

\* lines 492-497 and 532-592: one iteration of the loop over result.Added.
\* processPlaidTransaction reads the item's accounts, builds the encrypted
\* transaction and stores nothing.
processPlaidTransaction(p, dbOK) ==
    /\ sreq[p].pc = "process"
    /\ LET r == sreq[p]
           txn == r.result.Added[r.next]
           linked == LinkedAccounts(plaidAccounts, txn)
           ok == dbOK /\ linked # {}
           last == r.next = Len(r.result.Added)
       IN /\ sreq' = [sreq EXCEPT ![p] =
                [r EXCEPT !.next = r.next + 1,
                          !.resolvable = IF linked # {} THEN r.resolvable + 1
                                         ELSE r.resolvable,
                          !.addedCount = IF ok THEN r.addedCount + 1 ELSE r.addedCount,
                          !.pc = IF last THEN "update_cursor" ELSE "process"]]
          /\ resolved' = IF ok THEN resolved \cup {txn} ELSE resolved
    /\ UNCHANGED <<authVars, cryptoVars, phraseVars, jwtVars, loopVars, rateVars, acctVars, lockVars, storeVars, plaidItems, plaidAccounts, transactions, plaidSyncs, syncCalls>>

\* lines 505-508: plaidRepo.UpdateItemCursor; its error is dropped
updateItemCursor(p, dbOK) ==
    /\ sreq[p].pc = "update_cursor"
    /\ plaidItems' = IF dbOK
                     THEN UpdateItemCursor(plaidItems, sreq[p].item.ID,
                                           sreq[p].result.NextCursor)
                     ELSE plaidItems
    /\ sreq' = [sreq EXCEPT ![p].pc = "record_success"]
    /\ UNCHANGED <<authVars, cryptoVars, phraseVars, jwtVars, loopVars, rateVars, acctVars, lockVars, storeVars, plaidAccounts, transactions, plaidSyncs, resolved, syncCalls>>

\* lines 510-529: plaidRepo.CreateSync (its error is dropped), then the
\* response with the counts
createSync(p, dbOK) ==
    /\ sreq[p].pc = "record_success"
    /\ plaidSyncs' = IF dbOK /\ CanCreateSync(SuccessfulSync(sreq[p]))
                     THEN CreateSync(plaidSyncs, SuccessfulSync(sreq[p]))
                     ELSE plaidSyncs
    /\ sreq' = [sreq EXCEPT ![p] =
          [SyncRespond(sreq[p], 200, "") EXCEPT
              !.response = SyncTransactionsResponse(sreq[p].addedCount, sreq[p].result)]]
    /\ UNCHANGED <<authVars, cryptoVars, phraseVars, jwtVars, loopVars, rateVars, acctVars, lockVars, storeVars, plaidItems, plaidAccounts, transactions, resolved, syncCalls>>

\* return of syncTransactions
syncReturn(p) ==
    /\ sreq[p].pc = "return"
    /\ sreq' = [sreq EXCEPT ![p] = IdleSync]
    /\ UNCHANGED <<authVars, cryptoVars, phraseVars, jwtVars, loopVars, rateVars, acctVars, lockVars, storeVars, plaidItems, plaidAccounts, transactions, plaidSyncs,
                   resolved, syncCalls>>

\* PlaidRepository.LinkAccountToOwnUAccount on an account not linked yet
linkAccount(plaidAccountID, ownuAccountID) ==
    /\ \E a \in plaidAccounts : a.ID = plaidAccountID /\ a.AccountID = NoValue
    /\ plaidAccounts' = LinkAccountToOwnUAccount(plaidAccounts, plaidAccountID,
                                                 ownuAccountID)
    /\ UNCHANGED <<authVars, cryptoVars, phraseVars, jwtVars, loopVars, rateVars, acctVars, lockVars, storeVars, plaidItems, transactions, plaidSyncs, sreq, resolved, syncCalls>>

\* session_id values a client presents: a handle some Begin call returned, or
\* one that was never issued (0)
SessionIDs == issued \cup {0}

\* the username of the ceremonies that RegSpec and LoginSpec follow to their end
CeremonyUsernames == {"alice"}

\* the ceremony handlers of the registration flow
RegNext ==
    \/ Tick
    \/ cleanup
    \/ \E username \in CeremonyUsernames : beginRegistration(username, TRUE)
    \/ \E p \in Reqs, sid \in SessionIDs, credential \in NewCredentialResponses,
          prf \in PRFOutputs : finishRegistration(p, sid, credential, prf)
    \/ \E p \in Reqs, dbOK \in BOOLEAN : createUser(p, dbOK)
    \/ \E p \in Reqs, dbOK \in BOOLEAN : createCredential(p, dbOK)
    \/ \E p \in Reqs : return(p)

\* the ceremony handlers of the login flow
LoginNext ==
    \/ Tick
    \/ cleanup
    \/ \E username \in CeremonyUsernames : beginLogin(username, TRUE)
    \/ \E p \in Reqs, sid \in SessionIDs : finishLogin(p, sid)
    \/ \E p \in Reqs, credential \in CredentialResponses, dbOK \in BOOLEAN :
          getUser(p, credential, dbOK)
    \/ \E p \in Reqs, dbOK \in BOOLEAN : updateSignCount(p, dbOK)
    \/ \E p \in Reqs : return(p)

\* the database after user "alice" has registered with credential credA:
\* uuid 1 is her user ID, uuid 2 the consumed handle of her ceremony
LoginInit ==
    /\ now = 0
    /\ uuidCtr = 2
    /\ NewSessionStore
    /\ \E prf \in PRFOutputs \ {BadBase64}, signCount \in SignCounts :
        /\ users = {NewUser([Username |-> "alice", UserID |-> 1, ExpiresAt |-> SessionTTL],
                            prf, "dek1", "salt1", "n1", "randomhex",
                            GenerateRecoveryPhrase(Entropy(1)))}
        /\ credentials = {[ID |-> "credA", UserID |-> 1, SignCount |-> signCount]}
    /\ req = [p \in Reqs |-> IdleReq]
    /\ issued = {2}
    /\ shown = (1 :> GenerateRecoveryPhrase(Entropy(1)))
    /\ regDEK = (1 :> "dek1")
    /\ passCount = [h \in {0} \cup UUIDs |-> IF h = 2 THEN 1 ELSE 0]
    /\ beginResp = NoBeginResp
    /\ NoAccounts
    /\ NoPlaid

\* the tokens of the registered users, as generateJWT issued them
Tokens == {generateJWT(u, u.EncryptedDEK) : u \in users}

MaxHistory == 3      \* rows of plaid_syncs after which no further sync is requested

\* lines 421-471 of syncTransactions for a request on goroutine p: the locals
\* after the ownership check and the decryption
StartSync(p, token, itemID, dbOK) ==
    [sreq EXCEPT ![p] =
        SyncLocals([IdleSync EXCEPT !.UserID = token.UserID], token,
                   IF dbOK THEN GetItemByID(itemID) ELSE {},
                   GetByID(token.UserID))]

\* POST /plaid/items/:id/sync sent by a client (services/plaid.ts,
\* syncTransactions(itemId)): the handler runs lines 421-471
postSync(p, token, itemID, dbOK) ==
    /\ sreq[p].pc = "idle"
    /\ Len(plaidSyncs) < MaxHistory
    /\ sreq' = StartSync(p, token, itemID, dbOK)
    /\ UNCHANGED <<authVars, cryptoVars, phraseVars, jwtVars, loopVars, rateVars, acctVars, lockVars, storeVars, plaidItems, plaidAccounts, transactions, plaidSyncs, resolved, syncCalls>>

\* part_011 lines 129-131: a click on "Sync" calls handleSyncTransactions,
\* which sets syncingItem
handleSyncTransactions(itemID) ==
    /\ dashboard.pc = "idle"
    /\ ~dashboard.clicked
    /\ dashboard' = [dashboard EXCEPT !.pc = "call", !.syncingItem = itemID,
                                      !.clicked = TRUE]
    /\ UNCHANGED <<authVars, syncVars, cryptoVars, phraseVars, jwtVars, rateVars, acctVars, lockVars, storeVars>>

\* part_011 line 132: await syncTransactions(itemId); the request reaches
\* the handler on goroutine 1
callSync(token, dbOK) ==
    /\ dashboard.pc = "call"
    /\ sreq[1].pc = "idle"
    /\ Len(plaidSyncs) < MaxHistory
    /\ sreq' = StartSync(1, token, dashboard.syncingItem, dbOK)
    /\ dashboard' = [dashboard EXCEPT !.pc = "await"]
    /\ UNCHANGED <<authVars, cryptoVars, phraseVars, jwtVars, rateVars, acctVars, lockVars, storeVars, plaidItems, plaidAccounts, transactions, plaidSyncs, resolved, syncCalls>>

\* part_011 lines 132-142: the response arrives; with has_more the function
\* calls itself, otherwise (or on an error status, through catch) finally
\* sets syncingItem to null
awaitSync ==
    /\ dashboard.pc = "await"
    /\ sreq[1].pc = "return"
    /\ dashboard' =
          IF sreq[1].status = 200 /\ sreq[1].response.HasMore
          THEN [dashboard EXCEPT !.pc = "call"]
          ELSE [dashboard EXCEPT !.pc = "idle", !.syncingItem = "none",
                                 !.error = IF sreq[1].status = 200 THEN ""
                                           ELSE "Failed to sync transactions"]
    /\ sreq' = [sreq EXCEPT ![1] = IdleSync]
    /\ UNCHANGED <<authVars, cryptoVars, phraseVars, jwtVars, rateVars, acctVars, lockVars, storeVars, plaidItems, plaidAccounts, transactions, plaidSyncs, resolved, syncCalls>>

\* concurrent sync requests for the items while the provider and the
\* database work
CursorNext ==
    \/ \E p \in SyncReqs, token \in Tokens, itemID \in ItemIDs :
          postSync(p, token, itemID, TRUE)
    \/ \E p \in SyncReqs : SyncTransactions(p, TRUE)
    \/ \E p \in SyncReqs : processPlaidTransaction(p, TRUE)
    \/ \E p \in SyncReqs : updateItemCursor(p, TRUE)
    \/ \E p \in SyncReqs : createSync(p, TRUE)
    \/ \E p \in SyncReqs : syncReturn(p)

\* the dashboard's loop over has_more while every provider call succeeds
LoopNext ==
    \/ \E itemID \in ItemIDs : handleSyncTransactions(itemID)
    \/ \E token \in Tokens, dbOK \in BOOLEAN : callSync(token, dbOK)
    \/ \E p \in SyncReqs : SyncTransactions(p, TRUE)
    \/ \E p \in SyncReqs, dbOK \in BOOLEAN : processPlaidTransaction(p, dbOK)
    \/ \E p \in SyncReqs, dbOK \in BOOLEAN : updateItemCursor(p, dbOK)
    \/ \E p \in SyncReqs, dbOK \in BOOLEAN : createSync(p, dbOK)
    \/ awaitSync
    \/ \E a \in {x.ID : x \in plaidAccounts}, o \in OwnUAccountIDs : linkAccount(a, o)

\* the sync requests and the linking of accounts
SyncNext ==
    \/ \E p \in SyncReqs, token \in Tokens, itemID \in ItemIDs \cup {NoValue},
          dbOK \in BOOLEAN : syncTransactions(p, token, itemID, dbOK)
    \/ \E p \in SyncReqs, ok \in BOOLEAN : SyncTransactions(p, ok)
    \/ \E p \in SyncReqs, dbOK \in BOOLEAN : createFailedSync(p, dbOK)
    \/ \E p \in SyncReqs, dbOK \in BOOLEAN : processPlaidTransaction(p, dbOK)
    \/ \E p \in SyncReqs, dbOK \in BOOLEAN : updateItemCursor(p, dbOK)
    \/ \E p \in SyncReqs, dbOK \in BOOLEAN : createSync(p, dbOK)
    \/ \E p \in SyncReqs : syncReturn(p)
    \/ \E a \in {x.ID : x \in plaidAccounts}, o \in OwnUAccountIDs : linkAccount(a, o)

\* users "alice" and "bob" have registered, alice with the given PRF output;
\* alice has linked item1 (exchangePublicToken, lines 157-264): the access
\* token is stored under her DEK, the cursor is empty and the item's accounts
\* are not linked to OwnU accounts
SyncInit ==
    /\ now = 0
    /\ uuidCtr = 4
    /\ NewSessionStore
    /\ \E prf \in PRFOutputs \ {BadBase64} :
        users = {NewUser([Username |-> "alice", UserID |-> 1, ExpiresAt |-> SessionTTL],
                         prf, "dek1", "salt1", "n1", "randomhex",
                         GenerateRecoveryPhrase(Entropy(1))),
                 NewUser([Username |-> "bob", UserID |-> 3, ExpiresAt |-> SessionTTL],
                         Base64Encode(PlaceholderSecret), "dek2", "salt1", "n1",
                         "randomhex", GenerateRecoveryPhrase(Entropy(1)))}
    /\ credentials = {[ID |-> "credA", UserID |-> 1, SignCount |-> 0],
                      [ID |-> "credB", UserID |-> 3, SignCount |-> 0]}
    /\ req = [p \in Reqs |-> IdleReq]
    /\ issued = {2, 4}
    /\ shown = (1 :> GenerateRecoveryPhrase(Entropy(1)) @@ 3 :> GenerateRecoveryPhrase(Entropy(1)))
    /\ regDEK = (1 :> "dek1" @@ 3 :> "dek2")
    /\ passCount = [h \in {0} \cup UUIDs |-> IF h \in {2, 4} THEN 1 ELSE 0]
    /\ beginResp = NoBeginResp
    /\ NoAccounts
    /\ plaidItems = {[ID |-> "item1", UserID |-> 1,
                      EncryptedAccessToken |-> Encrypt(AccessToken, "dek1", "n1"),
                      Cursor |-> 0]}
    /\ plaidAccounts = {[ID |-> i, PlaidItemID |-> "item1", UserID |-> 1,
                         PlaidAccountID |-> PlaidAccountIDs[i], AccountID |-> NoValue] :
                           i \in 1..Len(PlaidAccountIDs)}
    /\ transactions = {}
    /\ plaidSyncs = <<>>
    /\ sreq = [p \in SyncReqs |-> IdleSync]
    /\ resolved = {}
    /\ syncCalls = 0

\* the Begin handlers with every input
BeginNext ==
    \/ Tick
    \/ cleanup
    \/ \E username \in Usernames, dbOK \in BOOLEAN : beginRegistration(username, dbOK)
    \/ \E username \in Usernames, dbOK \in BOOLEAN : beginLogin(username, dbOK)

\* the databases a Begin handler can find: no user, or user "alice" with her
\* credential, or "alice" without one (a registration whose CreateCredential
\* failed); the ceremonies that led there are over and not recorded
BeginInit ==
    /\ now = 0
    /\ uuidCtr = 2
    /\ NewSessionStore
    /\ \E registered \in BOOLEAN, withCredential \in BOOLEAN :
        /\ users = IF registered
                   THEN {NewUser([Username |-> "alice", UserID |-> 1,
                                  ExpiresAt |-> SessionTTL],
                                 EmptyString, "dek1", "salt1", "n1", "randomhex",
                                 GenerateRecoveryPhrase(Entropy(1)))}
                   ELSE {}
        /\ credentials = IF registered /\ withCredential
                         THEN {[ID |-> "credA", UserID |-> 1, SignCount |-> 0]}
                         ELSE {}
    /\ req = [p \in Reqs |-> IdleReq]
    /\ issued = {}
    /\ shown = <<>>
    /\ regDEK = <<>>
    /\ passCount = [h \in {0} \cup UUIDs |-> 0]
    /\ beginResp = NoBeginResp
    /\ NoAccounts
    /\ NoPlaid

(***************************************************************************)
(* The session store on its own: direct calls of its methods by request    *)
(* goroutines, each atomic under the store's lock, on a clock of minutes.  *)
(* The cleanup ticker fires every minute and its pass runs before the next *)
(* tick.                                                                   *)
(***************************************************************************)
StoreKeys == 1..NumStoreKeys

\* a call of SessionStore.Save
StoreSave(key) ==
    /\ sessions' = Save(sessions, key, "alice", 1, now)
    /\ savedAt' = SaveTimes
    /\ UNCHANGED <<syncVars, cryptoVars, phraseVars, jwtVars, loopVars, rateVars, acctVars, lockVars, storeVars, beginResp, now, uuidCtr, users, credentials, req, issued, shown, regDEK, passCount>>

\* a call of SessionStore.Get
StoreGet(key) ==
    /\ got' = [key |-> key, ok |-> Get(sessions, key, now), present |-> key \in DOMAIN sessions]
    /\ UNCHANGED <<authVars, cryptoVars, phraseVars, jwtVars, loopVars, rateVars, acctVars, lockVars, syncVars, sweepDue, swept>>

\* a call of SessionStore.Delete
StoreDelete(key) ==
    /\ sessions' = Delete(sessions, key)
    /\ savedAt' = SaveTimes
    /\ UNCHANGED <<syncVars, cryptoVars, phraseVars, jwtVars, loopVars, rateVars, acctVars, lockVars, storeVars, beginResp, now, uuidCtr, users, credentials, req, issued, shown, regDEK, passCount>>

\* a minute passes and the ticker of cleanup fires (line 68)
tickerFires ==
    /\ ~sweepDue
    /\ now + SweepPeriod <= MaxStoreTime
    /\ now' = now + SweepPeriod
    /\ sweepDue' = TRUE
    /\ UNCHANGED <<syncVars, cryptoVars, phraseVars, jwtVars, loopVars, rateVars, acctVars, lockVars, got, swept, beginResp, uuidCtr, sessions, savedAt, users, credentials, req, issued, shown, regDEK, passCount>>

\* lines 69-78 of cleanup: the pass for the tick that fired
cleanupPass ==
    /\ sweepDue
    /\ sessions' = Sweep(sessions, now)
    /\ savedAt' = SaveTimes
    /\ swept' = DOMAIN sessions \ DOMAIN sessions'
    /\ sweepDue' = FALSE
    /\ UNCHANGED <<syncVars, cryptoVars, phraseVars, jwtVars, loopVars, rateVars, acctVars, lockVars, got, beginResp, now, uuidCtr, users, credentials, req, issued, shown, regDEK, passCount>>

StoreNext ==
    \/ tickerFires
    \/ cleanupPass
    \/ \E key \in StoreKeys : StoreSave(key)
    \/ \E key \in StoreKeys : StoreGet(key)
    \/ \E key \in StoreKeys : StoreDelete(key)

\* a new store, no user and no request
StoreInit ==
    /\ now = 0
    /\ uuidCtr = 0
    /\ NewSessionStore
    /\ users = {}
    /\ credentials = {}
    /\ req = [p \in Reqs |-> IdleReq]
    /\ issued = {}
    /\ shown = <<>>
    /\ regDEK = <<>>
    /\ passCount = [h \in {0} \cup UUIDs |-> 0]
    /\ beginResp = NoBeginResp
    /\ NoAccounts
    /\ NoPlaid

(***************************************************************************)
(* The session store with its mutex: a method is a step that takes the    *)
(* lock and a step that works on the map and releases the lock (the        *)
(* deferred Unlock).                                                       *)
(***************************************************************************)
\* sync.RWMutex: Lock waits for the writer and the readers to leave
CanLock(m) == ~m.writer /\ m.readers = 0

\* sync.RWMutex: RLock waits for the writer to leave
CanRLock(m) == ~m.writer

\* s.mu.Lock() of Save (line 38) and Delete (line 61)
storeLock(g, kind) ==
    /\ call[g].pc = "idle"
    /\ CanLock(mu)
    /\ mu' = [mu EXCEPT !.writer = TRUE]
    /\ call' = [call EXCEPT ![g] = LockedCall(kind)]
    /\ UNCHANGED <<authVars, cryptoVars, phraseVars, jwtVars, loopVars, rateVars, acctVars, syncVars, storeVars>>

\* s.mu.RLock() of Get (line 50)
storeRLock(g) ==
    /\ call[g].pc = "idle"
    /\ CanRLock(mu)
    /\ mu' = [mu EXCEPT !.readers = @ + 1]
    /\ call' = [call EXCEPT ![g] = LockedCall("Get")]
    /\ UNCHANGED <<authVars, cryptoVars, phraseVars, jwtVars, loopVars, rateVars, acctVars, syncVars, storeVars>>

\* lines 39-46 of Save
saveLocked(g, key) ==
    /\ call[g] = LockedCall("Save")
    /\ sessions' = Save(sessions, key, "alice", 1, now)
    /\ savedAt' = SaveTimes
    /\ mu' = [mu EXCEPT !.writer = FALSE]
    /\ call' = [call EXCEPT ![g] = IdleCall]
    /\ UNCHANGED <<syncVars, cryptoVars, phraseVars, jwtVars, loopVars, rateVars, acctVars, storeVars, beginResp, now, uuidCtr, users, credentials, req, issued, shown, regDEK, passCount>>

\* lines 51-57 of Get
getLocked(g, key) ==
    /\ call[g] = LockedCall("Get")
    /\ got' = [key |-> key, ok |-> Get(sessions, key, now), present |-> key \in DOMAIN sessions]
    /\ mu' = [mu EXCEPT !.readers = @ - 1]
    /\ call' = [call EXCEPT ![g] = IdleCall]
    /\ UNCHANGED <<authVars, cryptoVars, phraseVars, jwtVars, loopVars, rateVars, acctVars, syncVars, sweepDue, swept>>

\* lines 62-64 of Delete
deleteLocked(g, key) ==
    /\ call[g] = LockedCall("Delete")
    /\ sessions' = Delete(sessions, key)
    /\ savedAt' = SaveTimes
    /\ mu' = [mu EXCEPT !.writer = FALSE]
    /\ call' = [call EXCEPT ![g] = IdleCall]
    /\ UNCHANGED <<syncVars, cryptoVars, phraseVars, jwtVars, loopVars, rateVars, acctVars, storeVars, beginResp, now, uuidCtr, users, credentials, req, issued, shown, regDEK, passCount>>

\* a cleanup pass that enters without taking the lock
cleanupUnlocked ==
    /\ call[Sweeper].pc = "idle"
    /\ \E k \in DOMAIN sessions : now > sessions[k].ExpiresAt
    /\ mu' = [mu EXCEPT !.writer = TRUE]
    /\ call' = [call EXCEPT ![Sweeper] = LockedCall("cleanup")]
    /\ UNCHANGED <<authVars, cryptoVars, phraseVars, jwtVars, loopVars, rateVars, acctVars, syncVars, storeVars>>

\* s.mu.Lock() of cleanup (line 70), in a pass that finds something to delete
cleanupLock ==
    /\ call[Sweeper].pc = "idle"
    /\ \E k \in DOMAIN sessions : now > sessions[k].ExpiresAt
    /\ CanLock(mu)
    /\ mu' = [mu EXCEPT !.writer = TRUE]
    /\ call' = [call EXCEPT ![Sweeper] = LockedCall("cleanup")]
    /\ UNCHANGED <<authVars, cryptoVars, phraseVars, jwtVars, loopVars, rateVars, acctVars, syncVars, storeVars>>

\* lines 71-77 of cleanup
cleanupLocked ==
    /\ call[Sweeper] = LockedCall("cleanup")
    /\ sessions' = Sweep(sessions, now)
    /\ savedAt' = SaveTimes
    /\ swept' = DOMAIN sessions \ DOMAIN sessions'
    /\ mu' = [mu EXCEPT !.writer = FALSE]
    /\ call' = [call EXCEPT ![Sweeper] = IdleCall]
    /\ UNCHANGED <<syncVars, cryptoVars, phraseVars, jwtVars, loopVars, rateVars, acctVars, got, sweepDue, beginResp, now, uuidCtr, users, credentials, req, issued, shown, regDEK, passCount>>

LockNext ==
    \/ Tick
    \/ \E g \in Callers, kind \in {"Save", "Delete"} : storeLock(g, kind)
    \/ \E g \in Callers : storeRLock(g)
    \/ \E g \in Callers, key \in StoreKeys : saveLocked(g, key)
    \/ \E g \in Callers, key \in StoreKeys : getLocked(g, key)
    \/ \E g \in Callers, key \in StoreKeys : deleteLocked(g, key)
    \/ cleanupLock
    \/ cleanupLocked

(***************************************************************************)
(* The protected routes: jwtMiddleware in front of the account handlers.   *)
(* A handler with a single access to table accounts is one step: its read  *)
(* of the user row commutes with every step, no protected handler but      *)
(* deleteUserAccount writing table users.                                  *)
(***************************************************************************)
MaxAccounts == 1     \* accounts created in a behaviour

\* the last uuid createAccount may draw: the registrations of the two users
\* have drawn four
MaxAccountID == 4 + MaxAccounts

\* CreateAccountRequest.Name
AccountNames == {"", "checking", "savings"}

\* c.Param("id") of the account routes: an account, a uuid of no account, or
\* a string that is no uuid
AccountIDParams == {a.ID : a \in accounts} \cup {0, BadUserID}

\* the Authorization headers a client sends: none, another scheme, or a
\* Bearer token that carries the claims of an issued token or an unparsable
\* user ID, is or is not signed with the server secret and is or is not
\* expired
Authorizations ==
    {NoAuthorization, BasicAuthorization} \cup
    [scheme : {"Bearer"}, signed : BOOLEAN, expired : BOOLEAN,
     claims : Tokens \cup {[NoToken EXCEPT !.UserID = BadUserID]}]

\* a middleware that lets an expired token through
jwtMiddlewareIgnoringExpiry(auth) ==
    IF auth.scheme = ""
    THEN [ok |-> FALSE, status |-> 401, error |-> "missing authorization header"]
    ELSE IF auth.scheme # "Bearer"
    THEN [ok |-> FALSE, status |-> 401, error |-> "invalid authorization header"]
    ELSE IF ~auth.signed
    THEN [ok |-> FALSE, status |-> 401, error |-> "invalid token"]
    ELSE IF auth.claims.UserID = BadUserID
    THEN [ok |-> FALSE, status |-> 401, error |-> "invalid user ID in token"]
    ELSE [ok |-> TRUE, status |-> 0, error |-> ""]

\* jwtMiddleware, lines 28-62: whether next(c) is called, and the response if not
jwtMiddleware(auth) ==
    IF auth.scheme = ""
    THEN [ok |-> FALSE, status |-> 401, error |-> "missing authorization header"]
    ELSE IF auth.scheme # "Bearer"
    THEN [ok |-> FALSE, status |-> 401, error |-> "invalid authorization header"]
    ELSE IF ~auth.signed \/ auth.expired
    THEN [ok |-> FALSE, status |-> 401, error |-> "invalid token"]
    ELSE IF auth.claims.UserID = BadUserID
    THEN [ok |-> FALSE, status |-> 401, error |-> "invalid user ID in token"]
    ELSE [ok |-> TRUE, status |-> 0, error |-> ""]

\* the response of a protected route
ProtResponse(op, auth, id, status, error, body) ==
    [op |-> op, auth |-> auth, id |-> id, status |-> status, error |-> error, body |-> body]

\* models.AccountData as json.Marshal writes it
AccountData(name) == [Name |-> name]

\* Server.encryptAccountData
encryptAccountData(data, dek, nonce) == Encrypt(data, dek, nonce)

\* Server.decryptAccountData
decryptAccountData(encryptedData, dek) == Decrypt(encryptedData, dek)

\* AccountResponse
AccountResponse(account, data) == [ID |-> account.ID, Name |-> data.Name]

\* AccountRepository.GetByUserID
GetAccountsByUserID(userID) == {a \in accounts : a.UserID = userID}

\* AccountRepository.GetByID: the matching rows (none: ErrNotFound)
GetAccountByID(id) == {a \in accounts : a.ID = id}

\* jwtMiddleware answers a request of any route of the group with 401 and
\* does not call the handler
jwtRejects(auth) ==
    /\ ~jwtMiddleware(auth).ok
    /\ presp' = ProtResponse("jwtMiddleware", auth, 0, jwtMiddleware(auth).status,
                             jwtMiddleware(auth).error, {})
    /\ UNCHANGED <<authVars, cryptoVars, phraseVars, jwtVars, loopVars, rateVars, syncVars, storeVars, lockVars, accounts, preq>>

\* part_003 lines 34-81
listAccounts(auth, dbOK) ==
    /\ jwtMiddleware(auth).ok
    /\ LET claims == auth.claims
           found == GetByID(claims.UserID)
       IN presp' =
          IF found = {}
          THEN ProtResponse("listAccounts", auth, 0, 500, "failed to get user", {})
          ELSE LET dek == decryptDEK(claims.EncryptedDEK, CHOOSE u \in found : TRUE) IN
               IF ~dek.ok
               THEN ProtResponse("listAccounts", auth, 0, 500, "failed to decrypt key", {})
               ELSE IF ~dbOK
               THEN ProtResponse("listAccounts", auth, 0, 500, "failed to get accounts", {})
               ELSE ProtResponse("listAccounts", auth, 0, 200, "",
                       {AccountResponse(a, decryptAccountData(a.EncryptedData, dek.pt).pt) :
                           a \in {x \in GetAccountsByUserID(claims.UserID) :
                                     decryptAccountData(x.EncryptedData, dek.pt).ok}})
    /\ UNCHANGED <<authVars, cryptoVars, phraseVars, jwtVars, loopVars, rateVars, syncVars, storeVars, lockVars, accounts, preq>>

\* part_003 lines 85-153
createAccount(auth, name, dbOK) ==
    /\ jwtMiddleware(auth).ok
    /\ LET claims == auth.claims
           found == GetByID(claims.UserID)
           dek == decryptDEK(claims.EncryptedDEK, CHOOSE u \in found : TRUE)
       IN IF name = ""
          THEN /\ presp' = ProtResponse("createAccount", auth, 0, 400, "name is required", {})
               /\ UNCHANGED <<accounts, uuidCtr>>
          ELSE IF found = {}
          THEN /\ presp' = ProtResponse("createAccount", auth, 0, 500, "failed to get user", {})
               /\ UNCHANGED <<accounts, uuidCtr>>
          ELSE IF ~dek.ok
          THEN /\ presp' = ProtResponse("createAccount", auth, 0, 500,
                                        "failed to decrypt key", {})
               /\ UNCHANGED <<accounts, uuidCtr>>
          ELSE /\ uuidCtr < MaxAccountID
               /\ uuidCtr' = uuidCtr + 1
               /\ \E nonce \in Nonces :
                   LET account == [ID |-> uuidCtr + 1, UserID |-> claims.UserID,
                                   EncryptedData |->
                                       encryptAccountData(AccountData(name), dek.pt, nonce)]
                   IN IF dbOK
                      THEN /\ accounts' = accounts \cup {account}
                           /\ presp' = ProtResponse("createAccount", auth, account.ID, 201, "",
                                          {AccountResponse(account, AccountData(name))})
                      ELSE /\ accounts' = accounts
                           /\ presp' = ProtResponse("createAccount", auth, 0, 500,
                                                    "failed to create account", {})
    /\ UNCHANGED <<syncVars, cryptoVars, phraseVars, jwtVars, loopVars, rateVars, storeVars, lockVars, preq, beginResp, now, sessions, savedAt,
                   users, credentials, req, issued, shown, regDEK, passCount>>

\* part_003 lines 156-214
getAccount(auth, id, dbOK) ==
    /\ jwtMiddleware(auth).ok
    /\ LET claims == auth.claims
           found == GetByID(claims.UserID)
           rows == GetAccountByID(id)
       IN presp' =
          IF id = BadUserID
          THEN ProtResponse("getAccount", auth, id, 400, "invalid account ID", {})
          ELSE IF found = {}
          THEN ProtResponse("getAccount", auth, id, 500, "failed to get user", {})
          ELSE LET dek == decryptDEK(claims.EncryptedDEK, CHOOSE u \in found : TRUE) IN
               IF ~dek.ok
               THEN ProtResponse("getAccount", auth, id, 500, "failed to decrypt key", {})
               ELSE IF ~dbOK
               THEN ProtResponse("getAccount", auth, id, 500, "failed to get account", {})
               ELSE IF rows = {}
               THEN ProtResponse("getAccount", auth, id, 404, "account not found", {})
               ELSE LET account == CHOOSE a \in rows : TRUE
                        data == decryptAccountData(account.EncryptedData, dek.pt)
                    IN IF account.UserID # claims.UserID
                       THEN ProtResponse("getAccount", auth, id, 404, "account not found", {})
                       ELSE IF ~data.ok
                       THEN ProtResponse("getAccount", auth, id, 500,
                                         "failed to decrypt data", {})
                       ELSE ProtResponse("getAccount", auth, id, 200, "",
                                         {AccountResponse(account, data.pt)})
    /\ UNCHANGED <<authVars, cryptoVars, phraseVars, jwtVars, loopVars, rateVars, syncVars, storeVars, lockVars, accounts, preq>>

\* AccountRepository.Delete: DELETE ... WHERE id = $1 AND user_id = $2
DeleteAccountRow(rows, id, userID) == {a \in rows : ~(a.ID = id /\ a.UserID = userID)}

\* part_003 lines 301-321; the rows that reference the account follow it
\* (transactions: ON DELETE CASCADE, plaid_accounts: ON DELETE SET NULL)
deleteAccount(auth, id, dbOK) ==
    /\ jwtMiddleware(auth).ok
    /\ LET claims == auth.claims
           deleted == accounts \ DeleteAccountRow(accounts, id, claims.UserID)
       IN IF id = BadUserID
          THEN /\ presp' = ProtResponse("deleteAccount", auth, id, 400, "invalid account ID", {})
               /\ UNCHANGED <<accounts, transactions, plaidAccounts>>
          ELSE IF ~dbOK
          THEN /\ presp' = ProtResponse("deleteAccount", auth, id, 500,
                                        "failed to delete account", {})
               /\ UNCHANGED <<accounts, transactions, plaidAccounts>>
          ELSE IF deleted = {}
          THEN /\ presp' = ProtResponse("deleteAccount", auth, id, 404, "account not found", {})
               /\ UNCHANGED <<accounts, transactions, plaidAccounts>>
          ELSE /\ accounts' = DeleteAccountRow(accounts, id, claims.UserID)
               /\ transactions' = {t \in transactions : t.AccountID # id}
               /\ plaidAccounts' =
                     {IF a.AccountID # NoValue /\ a.AccountID = id
                      THEN [a EXCEPT !.AccountID = NoValue] ELSE a : a \in plaidAccounts}
               /\ presp' = ProtResponse("deleteAccount", auth, id, 204, "", {})
    /\ UNCHANGED <<authVars, cryptoVars, phraseVars, jwtVars, loopVars, rateVars, storeVars, lockVars, preq, plaidItems, plaidSyncs, sreq,
                   resolved, syncCalls>>

\* AccountRepository.Update: UPDATE ... WHERE id = $3 AND user_id = $4
UpdateAccountRow(rows, id, userID, encryptedData) ==
    {IF a.ID = id /\ a.UserID = userID THEN [a EXCEPT !.EncryptedData = encryptedData]
     ELSE a : a \in rows}

\* part_003 lines 217-262: up to accountRepo.GetByID and the ownership check
updateAccount(auth, id, name, dbOK) ==
    /\ jwtMiddleware(auth).ok
    /\ preq.pc = "idle"
    /\ LET claims == auth.claims
           found == GetByID(claims.UserID)
           rows == GetAccountByID(id)
           dek == decryptDEK(claims.EncryptedDEK, CHOOSE u \in found : TRUE)
           error == IF id = BadUserID THEN <<400, "invalid account ID">>
                    ELSE IF name = "" THEN <<400, "name is required">>
                    ELSE IF found = {} THEN <<500, "failed to get user">>
                    ELSE IF ~dek.ok THEN <<500, "failed to decrypt key">>
                    ELSE IF ~dbOK THEN <<500, "failed to get account">>
                    ELSE IF rows = {} THEN <<404, "account not found">>
                    ELSE IF \E a \in rows : a.UserID # claims.UserID
                    THEN <<404, "account not found">>
                    ELSE <<0, "">>
       IN IF error[1] # 0
          THEN /\ presp' = ProtResponse("updateAccount", auth, id, error[1], error[2], {})
               /\ preq' = preq
          ELSE /\ preq' = [IdleProt EXCEPT !.pc = "update_account", !.auth = auth, !.id = id,
                                           !.name = name, !.dek = dek.pt]
               /\ presp' = presp
    /\ UNCHANGED <<authVars, cryptoVars, phraseVars, jwtVars, loopVars, rateVars, syncVars, storeVars, lockVars, accounts>>

\* part_003 lines 264-297: encryptAccountData, accountRepo.Update and the
\* response
updateAccountRow(dbOK) ==
    /\ preq.pc = "update_account"
    /\ preq' = IdleProt
    /\ \E nonce \in Nonces :
        LET userID == preq.auth.claims.UserID
            encryptedData == encryptAccountData(AccountData(preq.name), preq.dek, nonce)
        IN IF dbOK /\ \E a \in accounts : a.ID = preq.id /\ a.UserID = userID
           THEN /\ accounts' = UpdateAccountRow(accounts, preq.id, userID, encryptedData)
                /\ presp' = ProtResponse("updateAccount", preq.auth, preq.id, 200, "",
                               {[ID |-> preq.id, Name |-> preq.name]})
           ELSE /\ accounts' = accounts
                /\ presp' = ProtResponse("updateAccount", preq.auth, preq.id, 500,
                                         "failed to update account", {})
    /\ UNCHANGED <<authVars, cryptoVars, phraseVars, jwtVars, loopVars, rateVars, syncVars, storeVars, lockVars>>

\* an id of the item routes that is no uuid
BadItemID == "not-a-uuid"

\* c.Param("id") of the item routes: an item, a uuid of no item, or a string
\* that is no uuid
ItemIDParams == ItemIDs \cup {NoValue, BadItemID}

\* a deletePlaidItem without the ownership check of lines 386-388
deletePlaidItemOfAnyone(auth, itemID, dbOK) ==
    /\ jwtMiddleware(auth).ok
    /\ preq.pc = "idle"
    /\ LET claims == auth.claims
           items == IF dbOK THEN GetItemByID(itemID) ELSE {}
       IN IF itemID = BadItemID \/ items = {}
          THEN /\ presp' = ProtResponse("deletePlaidItem", auth, itemID, 404, "item not found", {})
               /\ preq' = preq
          ELSE /\ preq' = [IdleProt EXCEPT !.pc = "delete_item", !.auth = auth,
                                           !.item = itemID]
               /\ presp' = presp
    /\ UNCHANGED <<authVars, cryptoVars, phraseVars, jwtVars, loopVars, rateVars, syncVars, storeVars, lockVars, accounts>>

\* middleware.go lines 357-406: up to the best-effort plaid.RemoveItem, which
\* is called only if the access token decrypts and whose error is dropped
deletePlaidItem(auth, itemID, dbOK) ==
    /\ jwtMiddleware(auth).ok
    /\ preq.pc = "idle"
    /\ LET claims == auth.claims
           items == IF dbOK THEN GetItemByID(itemID) ELSE {}
           found == GetByID(claims.UserID)
           dek == decryptDEK(claims.EncryptedDEK, CHOOSE u \in found : TRUE)
           error == IF itemID = BadItemID THEN <<400, "invalid item ID">>
                    ELSE IF items = {} THEN <<404, "item not found">>
                    ELSE IF \E it \in items : it.UserID # claims.UserID
                    THEN <<403, "access denied">>
                    ELSE IF found = {} THEN <<500, "failed to get user">>
                    ELSE IF ~dek.ok THEN <<500, "failed to decrypt key">>
                    ELSE <<0, "">>
       IN IF error[1] # 0
          THEN /\ presp' = ProtResponse("deletePlaidItem", auth, itemID, error[1], error[2], {})
               /\ preq' = preq
          ELSE /\ preq' = [IdleProt EXCEPT !.pc = "delete_item", !.auth = auth,
                                           !.item = itemID, !.dek = dek.pt]
               /\ presp' = presp
    /\ UNCHANGED <<authVars, cryptoVars, phraseVars, jwtVars, loopVars, rateVars, syncVars, storeVars, lockVars, accounts>>

\* PlaidRepository.DeleteItem: DELETE ... WHERE id = $1 AND user_id = $2
DeleteItem(items, id, userID) == {it \in items : ~(it.ID = id /\ it.UserID = userID)}

\* middleware.go lines 408-417: plaidRepo.DeleteItem and the response; the
\* rows of plaid_accounts and plaid_syncs of the item go with it (ON DELETE
\* CASCADE)
deleteItemRow(dbOK) ==
    /\ preq.pc = "delete_item"
    /\ preq' = IdleProt
    /\ LET userID == preq.auth.claims.UserID
           rest == DeleteItem(plaidItems, preq.item, userID)
       IN IF dbOK /\ rest # plaidItems
          THEN /\ plaidItems' = rest
               /\ plaidAccounts' = {a \in plaidAccounts : a.PlaidItemID # preq.item}
               /\ plaidSyncs' = SelectSeq(plaidSyncs, LAMBDA s : s.PlaidItemID # preq.item)
               /\ presp' = ProtResponse("deletePlaidItem", preq.auth, preq.item, 200, "", {})
          ELSE /\ UNCHANGED <<plaidItems, plaidAccounts, plaidSyncs>>
               /\ presp' = ProtResponse("deletePlaidItem", preq.auth, preq.item, 500,
                                        "failed to delete item", {})
    /\ UNCHANGED <<authVars, cryptoVars, phraseVars, jwtVars, loopVars, rateVars, storeVars, lockVars, accounts, transactions, sreq, resolved,
                   syncCalls>>

\* the encrypted_data of an account row is altered in storage: its tag
\* verifies under no key any more
corruptAccountData(id) ==
    /\ \E a \in accounts : a.ID = id /\ a.EncryptedData.key # NoValue
    /\ accounts' = {IF a.ID = id THEN [a EXCEPT !.EncryptedData.key = NoValue] ELSE a :
                       a \in accounts}
    /\ UNCHANGED <<authVars, cryptoVars, phraseVars, jwtVars, loopVars, rateVars, syncVars, storeVars, lockVars, presp, preq>>

ProtectedNext ==
    \/ \E auth \in Authorizations : jwtRejects(auth)
    \/ \E auth \in Authorizations, dbOK \in BOOLEAN : listAccounts(auth, dbOK)
    \/ \E auth \in Authorizations, name \in AccountNames, dbOK \in BOOLEAN :
          createAccount(auth, name, dbOK)
    \/ \E auth \in Authorizations, id \in AccountIDParams, dbOK \in BOOLEAN :
          getAccount(auth, id, dbOK)
    \/ \E auth \in Authorizations, id \in AccountIDParams, dbOK \in BOOLEAN :
          deleteAccount(auth, id, dbOK)
    \/ \E id \in {a.ID : a \in accounts} : corruptAccountData(id)

(***************************************************************************)
(* RateLimiter.  Allow and cleanup hold rl.mu from their first statement   *)
(* to their return and read the clock under it: each is one step.          *)
(***************************************************************************)
\* rl.requests[key]: nil for a key that is not in the map
RequestsOf(key) == IF key \in DOMAIN requests THEN requests[key] ELSE <<>>

\* lines 169-175 and 194-200: the times after windowStart, in order
ValidRequests(times, windowStart) == SelectSeq(times, LAMBDA t : t > windowStart)

\* a limit check that lets one request more through
OverLimitByOne(validRequests) == Len(validRequests) > RateLimit

\* line 178: len(validRequests) >= rl.limit
OverLimit(validRequests) == Len(validRequests) >= RateLimit

\* rl.requests[key] = times
SetRequests(map, key, times) ==
    [k \in DOMAIN map \cup {key} |-> IF k = key THEN times ELSE map[k]]

\* RateLimiter.Allow
Allow(key) ==
    /\ LET windowStart == now - RateWindow
           validRequests == ValidRequests(RequestsOf(key), windowStart)
       IN IF OverLimit(validRequests)
          THEN /\ requests' = SetRequests(requests, key, validRequests)
               /\ admitted' = admitted
               /\ lastAllow' = [key |-> key, ok |-> FALSE]
          ELSE /\ requests' = SetRequests(requests, key, Append(validRequests, now))
               /\ admitted' = [admitted EXCEPT ![key][now] = admitted[key][now] + 1]
               /\ lastAllow' = [key |-> key, ok |-> TRUE]
    /\ UNCHANGED <<authVars, cryptoVars, phraseVars, jwtVars, loopVars, syncVars, storeVars, lockVars, acctVars>>

\* RateLimiter.cleanup, run by the ticker goroutine of NewRateLimiter
rateCleanup ==
    /\ LET windowStart == now - RateWindow
           kept == {k \in DOMAIN requests : ValidRequests(requests[k], windowStart) # <<>>}
       IN requests' = [k \in kept |-> ValidRequests(requests[k], windowStart)]
    /\ requests' # requests
    /\ UNCHANGED <<authVars, cryptoVars, phraseVars, jwtVars, loopVars, syncVars, storeVars, lockVars, acctVars, admitted, lastAllow>>

\* time passes on the clock of the rate limiter
rateTick ==
    /\ now < MaxRateTime
    /\ now' = now + 1
    /\ UNCHANGED <<syncVars, cryptoVars, phraseVars, jwtVars, loopVars, storeVars, lockVars, acctVars, rateVars, uuidCtr, sessions,
                   users, credentials, req, issued, shown, regDEK, passCount, beginResp,
                   savedAt>>

RateNext ==
    \/ \E key \in RateKeys : Allow(key)
    \/ rateCleanup
    \/ rateTick

(***************************************************************************)
(* Encrypt calls                                                           *)
(***************************************************************************)
\* Encrypt(plaintext, key): the key length is checked before a nonce is drawn
encrypt(plaintext, key) ==
    /\ Len(sealLog) < MaxSeals
    /\ rng < Power(ByteMod, NonceSize)
    /\ LET out == Seal(plaintext, key, NonceOf(rng)) IN
       IF out.ok
       THEN /\ rng' = rng + 1
            /\ sealLog' = Append(sealLog, [plaintext |-> plaintext, key |-> key,
                                           ciphertext |-> out.bytes])
       ELSE UNCHANGED <<rng, sealLog>>
    /\ UNCHANGED <<authVars, syncVars, storeVars, lockVars, acctVars, rateVars, phraseVars, jwtVars, loopVars>>

CryptoNext == \E plaintext \in Plaintexts, key \in SealKeys : encrypt(plaintext, key)

(***************************************************************************)
(* Recovery phrases: generation, hash, verification and key derivation    *)
(***************************************************************************)
MaxPhraseLen == 3    \* characters of the phrase in use
MaxTypedLen == 4     \* characters of a phrase typed in

\* the characters typed: blanks and two words, the first in both cases
PhraseChars == {Blank, Lower(0), Upper(0), Lower(1)}

\* the strings of n characters
RECURSIVE StringsOfLen(_)
StringsOfLen(n) ==
    IF n = 0 THEN {<<>>}
    ELSE {Append(s, c) : s \in StringsOfLen(n - 1), c \in PhraseChars}

\* the outcomes of the entropy source: those of the ceremonies, each also
\* with its last byte changed and with every byte changed by the same mask
EntropyValues ==
    EntropySources
    \cup {[e EXCEPT ![EntropyLen] = BitXor(e[EntropyLen], 1)] : e \in EntropySources}
    \cup {[i \in 1..EntropyLen |-> BitXor(e[i], 255)] : e \in EntropySources}

\* GenerateRecoveryPhrase() with the entropy it read
generateRecoveryPhrase(entropy) ==
    /\ generated' = [entropy |-> entropy, phrase |-> GenerateRecoveryPhrase(entropy)]
    /\ UNCHANGED <<authVars, syncVars, storeVars, lockVars, acctVars, rateVars, cryptoVars, jwtVars, loopVars,
                   enrolled, attempt>>

\* HashRecoveryPhrase(passphrase) and DeriveKeyFromPassphrase(passphrase,
\* salt) of the phrase that is put in use
enrolPhrase(passphrase, salt) ==
    /\ enrolled' = [set |-> TRUE, phrase |-> passphrase,
                    hash |-> HashRecoveryPhrase(passphrase), salt |-> salt,
                    key |-> DeriveKeyFromPassphrase(passphrase, salt)]
    /\ UNCHANGED <<authVars, syncVars, storeVars, lockVars, acctVars, rateVars, cryptoVars, jwtVars, loopVars,
                   generated, attempt>>

\* VerifyRecoveryPhrase(passphrase, storedHash) and
\* DeriveKeyFromPassphrase(passphrase, salt) of a phrase typed in
tryPhrase(passphrase) ==
    /\ enrolled.set
    /\ attempt' = [made |-> TRUE, phrase |-> passphrase,
                   ok |-> VerifyRecoveryPhrase(passphrase, enrolled.hash),
                   key |-> DeriveKeyFromPassphrase(passphrase, enrolled.salt)]
    /\ UNCHANGED <<authVars, syncVars, storeVars, lockVars, acctVars, rateVars, cryptoVars, jwtVars, loopVars,
                   generated, enrolled>>

\* the phrases put in use and the phrases typed in
PhraseStrings == UNION {StringsOfLen(n) : n \in 0..MaxPhraseLen}
TypedStrings == UNION {StringsOfLen(n) : n \in 0..MaxTypedLen}

\* phrases are generated; or one phrase is put in use and one phrase is
\* typed in
PhraseNext ==
    \/ /\ ~enrolled.set
       /\ \E entropy \in EntropyValues : generateRecoveryPhrase(entropy)
    \/ /\ ~enrolled.set
       /\ generated = NoGenerated
       /\ \E passphrase \in PhraseStrings, salt \in Salts : enrolPhrase(passphrase, salt)
    \/ /\ ~attempt.made
       /\ enrolled.set
       /\ \E passphrase \in TypedStrings : tryPhrase(passphrase)

(***************************************************************************)
(* Lifetime of the session tokens                                          *)
(***************************************************************************)
MaxJWTTime == 98     \* quarter hours of a behaviour
MaxJWTs == 1         \* tokens issued in a behaviour

\* the registered claims that generateJWT adds to the claims of the user
RegisteredClaims(t) == [ExpiresAt |-> t + TokenTTL, IssuedAt |-> t, Issuer |-> "ownu"]

\* the Validator of jwt.ParseWithClaims: a token is expired from exp on
Expired(token, t) == ~(t < token.registered.ExpiresAt)

\* finishRegistration or finishLogin returns the token of generateJWT(user,
\* user.EncryptedDEK)
issueJWT(user) ==
    /\ Cardinality(jwts) < MaxJWTs
    /\ jwts' = jwts \cup {[claims |-> generateJWT(user, user.EncryptedDEK),
                           registered |-> RegisteredClaims(jwtNow)]}
    /\ UNCHANGED <<authVars, syncVars, storeVars, lockVars, acctVars, rateVars, cryptoVars,
                   phraseVars, loopVars, jwtNow, jwtResp>>

\* a request to a protected route with an issued token as Bearer token
presentJWT(token) ==
    /\ jwtResp' = [made |-> TRUE, age |-> jwtNow - token.registered.IssuedAt,
                   ok |-> jwtMiddleware([scheme |-> "Bearer", signed |-> TRUE,
                                         expired |-> Expired(token, jwtNow),
                                         claims |-> token.claims]).ok]
    /\ UNCHANGED <<authVars, syncVars, storeVars, lockVars, acctVars, rateVars, cryptoVars,
                   phraseVars, loopVars, jwtNow, jwts>>

\* a quarter of an hour passes
jwtTick ==
    /\ jwtNow < MaxJWTTime
    /\ jwtNow' = jwtNow + 1
    /\ jwtResp' = NoJWTResp
    /\ UNCHANGED <<authVars, syncVars, storeVars, lockVars, acctVars, rateVars, cryptoVars,
                   phraseVars, loopVars, jwts>>

JWTNext ==
    \/ \E user \in users : issueJWT(user)
    \/ \E token \in jwts : presentJWT(token)
    \/ jwtTick

(***************************************************************************)
(* deleteUserAccount and the ceremonies of one username                    *)
(***************************************************************************)
\* UserRepository.Delete: the rows of a table that are left when the user
\* row goes (ON DELETE CASCADE on user_id)
WithoutUser(rows, userID) == {r \in rows : r.UserID # userID}

\* part_002 lines 349-398 with the confirmation given; the calls of
\* plaid.RemoveItem are best effort and change nothing here
deleteUserAccount(auth, dbOK) ==
    /\ jwtMiddleware(auth).ok
    /\ LET userID == auth.claims.UserID IN
       IF ~dbOK \/ GetByID(userID) = {}
       THEN /\ presp' = ProtResponse("deleteUserAccount", auth, userID, 500,
                                     "failed to get user", {})
            /\ UNCHANGED <<users, credentials, accounts, plaidItems, plaidAccounts,
                           transactions, plaidSyncs>>
       ELSE /\ users' = {u \in users : u.ID # userID}
            /\ credentials' = WithoutUser(credentials, userID)
            /\ accounts' = WithoutUser(accounts, userID)
            /\ plaidItems' = WithoutUser(plaidItems, userID)
            /\ plaidAccounts' = WithoutUser(plaidAccounts, userID)
            /\ transactions' = WithoutUser(transactions, userID)
            /\ plaidSyncs' = SelectSeq(plaidSyncs, LAMBDA y : y.UserID # userID)
            /\ presp' = ProtResponse("deleteUserAccount", auth, userID, 200, "", {})
    /\ UNCHANGED <<cryptoVars, phraseVars, jwtVars, loopVars, rateVars, storeVars, lockVars, preq,
                   sreq, resolved, syncCalls, now, uuidCtr, sessions, req, issued, shown,
                   regDEK, passCount, beginResp, savedAt>>

\* the credential field of a client that answers the challenge of the handle
\* it presents, with a credential of its own or with the registered one
AnsweringResponses ==
    {r \in CredentialResponses : r.chalOK /\ r.sig /\ r.SignCount = 0 /\ r.ID = "credA"}

\* the handles that beginRegistration and beginLogin handed out
RegistrationHandles == {userID + 1 : userID \in DOMAIN shown}
LoginHandles == issued \ RegistrationHandles

\* the tokens that jwtMiddleware lets through
ValidAuthorizations == {auth \in Authorizations : jwtMiddleware(auth).ok}

\* a client that registers and a client that logs in, each with one request
\* at a time and with every handle handed out for "alice", who may delete
\* her account
CeremonyNext ==
    \/ \E username \in CeremonyUsernames : beginRegistration(username, TRUE)
    \/ \E sid \in issued, credential \in AnsweringResponses :
          finishRegistration(1, sid, credential, EmptyString)
    \/ createUser(1, TRUE)
    \/ createCredential(1, TRUE)
    \/ \E username \in CeremonyUsernames : beginLogin(username, TRUE)
    \/ \E sid \in issued : finishLogin(2, sid)
    \/ \E credential \in AnsweringResponses : getUser(2, credential, TRUE)
    \/ updateSignCount(2, TRUE)
    \/ \E p \in Reqs : return(p)
    \/ \E auth \in ValidAuthorizations : deleteUserAccount(auth, TRUE)

\* two registration ceremonies for "alice" were begun, with user IDs 1 and 3
\* and handles 2 and 4, and none has finished
RaceInit ==
    /\ now = 0
    /\ uuidCtr = 4
    /\ sessions = Save(Save(<<>>, 2, "alice", 1, 0), 4, "alice", 3, 0)
    /\ savedAt = (2 :> 0 @@ 4 :> 0)
    /\ got = NoGot
    /\ sweepDue = FALSE
    /\ swept = {}
    /\ mu = [writer |-> FALSE, readers |-> 0]
    /\ call = [g \in Goroutines |-> IdleCall]
    /\ users = {}
    /\ credentials = {}
    /\ req = [p \in Reqs |-> IdleReq]
    /\ issued = {2, 4}
    /\ shown = (1 :> GenerateRecoveryPhrase(Entropy(1)) @@ 3 :> GenerateRecoveryPhrase(Entropy(1)))
    /\ regDEK = <<>>
    /\ passCount = [h \in {0} \cup UUIDs |-> 0]
    /\ beginResp = NoBeginResp
    /\ NoAccounts
    /\ NoPlaid

\* the two ceremonies are finished by concurrent requests, each once, goroutine
\* p with handle 2p
RaceNext ==
    \/ \E p \in Reqs, credential \in NewCredentialResponses, prf \in PRFOutputs :
          /\ 2 * p \in issued
          /\ passCount[2 * p] = 0
          /\ finishRegistration(p, 2 * p, credential, prf)
    \/ \E p \in Reqs, dbOK \in BOOLEAN : createUser(p, dbOK)
    \/ \E p \in Reqs, dbOK \in BOOLEAN : createCredential(p, dbOK)
    \/ \E p \in Reqs : return(p)

\* no request is in progress
NoRequest == preq.pc = "idle" /\ sreq[1].pc = "idle"

\* two users whose DEK unwraps use the account routes, delete an item and
\* sync, one request at a time, while the provider is unreachable
OwnershipNext ==
    \/ \E auth \in ValidAuthorizations, name \in AccountNames :
          NoRequest /\ createAccount(auth, name, TRUE)
    \/ \E auth \in ValidAuthorizations, id \in AccountIDParams :
          NoRequest /\ getAccount(auth, id, TRUE)
    \/ \E auth \in ValidAuthorizations, id \in AccountIDParams, name \in AccountNames :
          NoRequest /\ updateAccount(auth, id, name, TRUE)
    \/ \E dbOK \in BOOLEAN : updateAccountRow(dbOK)
    \/ \E auth \in ValidAuthorizations, id \in AccountIDParams :
          NoRequest /\ deleteAccount(auth, id, TRUE)
    \/ \E auth \in ValidAuthorizations, itemID \in ItemIDParams, dbOK \in BOOLEAN :
          NoRequest /\ deletePlaidItem(auth, itemID, dbOK)
    \/ \E dbOK \in BOOLEAN : deleteItemRow(dbOK)
    \/ \E auth \in ValidAuthorizations, itemID \in ItemIDs \cup {NoValue} :
          NoRequest /\ syncTransactions(1, auth.claims, itemID, TRUE)
    \/ SyncTransactions(1, FALSE)
    \/ \E dbOK \in BOOLEAN : createFailedSync(1, dbOK)
    \/ syncReturn(1)

\* the database of SyncInit with "alice" registered like "bob", her DEK
\* wrapped under the key that decryptDEK derives
OwnershipInit ==
    /\ SyncInit
    /\ \A u \in users : decryptDEK(generateJWT(u, u.EncryptedDEK).EncryptedDEK, u).ok

vars == <<authVars, syncVars, storeVars, lockVars, acctVars, rateVars, cryptoVars,
          phraseVars, jwtVars, loopVars>>

RegSpec == AuthInit /\ [][RegNext]_vars
LoginSpec == LoginInit /\ [][LoginNext]_vars
SyncSpec == SyncInit /\ [][SyncNext]_vars
StoreSpec == StoreInit /\ [][StoreNext]_vars
LockSpec == StoreInit /\ [][LockNext]_vars
ProtectedSpec == SyncInit /\ [][ProtectedNext]_vars
OwnershipSpec == OwnershipInit /\ [][OwnershipNext]_vars
RateSpec == AuthInit /\ [][RateNext]_vars
CryptoSpec == AuthInit /\ [][CryptoNext]_vars
PhraseSpec == AuthInit /\ [][PhraseNext]_vars
JWTSpec == SyncInit /\ [][JWTNext]_vars
CeremonySpec == AuthInit /\ [][CeremonyNext]_vars
RaceSpec == RaceInit /\ [][RaceNext]_vars
CursorSpec == SyncInit /\ [][CursorNext]_vars
LoopSpec == SyncInit /\ [][LoopNext]_vars
\* the handler and the dashboard keep running: every request is served and
\* every response is received
LoopFairSpec == LoopSpec /\ WF_vars(LoopNext)

\* the credential field of a client whose authenticator keeps no signature
\* counter
CounterlessResponses == {r \in CredentialResponses : r.SignCount = 0}

\* the client has no request in progress and has brought every ceremony it
\* began to a Finish call that passed the session check
CeremoniesDone == req[1].pc = "idle" /\ \A h \in issued : passCount[h] >= 1

\* one client that registers "alice" and then logs in, one ceremony and one
\* request at a time
EnvelopeNext ==
    \/ \E username \in CeremonyUsernames :
          CeremoniesDone /\ beginRegistration(username, TRUE)
    \/ \E sid \in SessionIDs, credential \in CounterlessResponses, prf \in PRFOutputs :
          finishRegistration(1, sid, credential, prf)
    \/ \E dbOK \in BOOLEAN : createUser(1, dbOK)
    \/ \E dbOK \in BOOLEAN : createCredential(1, dbOK)
    \/ \E username \in CeremonyUsernames : CeremoniesDone /\ beginLogin(username, TRUE)
    \/ \E sid \in SessionIDs : finishLogin(1, sid)
    \/ \E credential \in CounterlessResponses, dbOK \in BOOLEAN :
          getUser(1, credential, dbOK)
    \/ \E dbOK \in BOOLEAN : updateSignCount(1, dbOK)
    \/ return(1)

EnvelopeSpec == AuthInit /\ [][EnvelopeNext]_vars
\* the clock goes on and the cleanup goroutine is scheduled
StoreFairSpec == StoreSpec /\ WF_vars(tickerFires) /\ WF_vars(cleanupPass)
BeginSpec == BeginInit /\ [][BeginNext]_vars

Init == AuthInit
Next == RegNext \/ LoginNext \/ SyncNext \/ BeginNext \/ StoreNext \/ LockNext \/ ProtectedNext
        \/ EnvelopeNext \/ OwnershipNext \/ RateNext \/ CryptoNext \/ PhraseNext \/ JWTNext \/ CeremonyNext \/ RaceNext \/ CursorNext \/ LoopNext
Spec == Init /\ [][Next]_vars

(***************************************************************************)
(* Properties of the ceremony handlers                                     *)
(***************************************************************************)
\* a Finish handler that passed its session check and has not returned yet
InFlight(p) == req[p].deferred

\* C1: session handles are single-use: once a Finish call has passed the
\* session check for handle h no later Finish call passes it for h, and a
\* handle that no Begin call issued never passes it.
C1_SingleUse ==
    \A h \in DOMAIN passCount :
        /\ passCount[h] <= 1
        /\ passCount[h] >= 1 => h \in issued

\* C2: of the Finish requests that run concurrently with the same handle at
\* most one passes the session check and proceeds.
C2_AtomicConsume ==
    \A p, q \in Reqs :
        (p # q /\ InFlight(p) /\ InFlight(q)) => req[p].SessionID # req[q].SessionID

\* C3: the wrapped DEK in every issued token is unwrapped by decryptDEK to
\* the DEK generated at the registration of the token's user.
C3_TokenUnwraps ==
    \A p \in Reqs :
        req[p].status = 200 =>
            \A u \in users :
                u.ID = req[p].token.UserID =>
                    LET r == decryptDEK(req[p].token.EncryptedDEK, u) IN
                    r.ok /\ r.pt = regDEK[u.ID]

\* C4: the recovery-phrase hash of every persisted user verifies the phrase
\* that beginRegistration returned in the same ceremony.
C4_PhraseHashed ==
    \A u \in users :
        u.ID \in DOMAIN shown => VerifyRecoveryPhrase(shown[u.ID], u.RecoveryPhraseHash)

\* C5: a finishLogin whose assertion reports a nonzero counter that is not
\* greater than the nonzero stored counter fails and issues no token.
C5_ReplayRejected ==
    \A p \in Reqs :
        (req[p].op = "finishLogin" /\ req[p].stored # 0 /\ req[p].reported # 0
            /\ req[p].reported <= req[p].stored) => req[p].status # 200

\* C6: no step lowers the persisted signature counter of a credential.
C6_CounterMonotonic ==
    [][\A c \in credentials : \A d \in credentials' :
          c.ID = d.ID => d.SignCount >= c.SignCount]_vars

\* C7: of two concurrent finishLogin calls that assert the same credential
\* with the same signature-counter value at most one succeeds.
C7_SerializedReplayCheck ==
    \A p, q \in Reqs :
        (/\ p # q
         /\ req[p].op = "finishLogin" /\ req[q].op = "finishLogin"
         /\ req[p].status = 200 /\ req[q].status = 200
         /\ req[p].cred.ID = req[q].cred.ID)
        => req[p].reported # req[q].reported

\* C8: whenever no finishRegistration is running, every persisted user owns
\* a persisted credential.
C8_UserHasCredential ==
    (\A p \in Reqs : ~InFlight(p)) =>
        \A u \in users : \E c \in credentials : c.UserID = u.ID

(***************************************************************************)
(* Properties of the transaction sync                                      *)
(***************************************************************************)
\* a provider record is persisted: some row of table transactions holds its
\* data, encrypted under the DEK of the row's user
Persisted(t) ==
    \E row \in transactions :
        LET data == Decrypt(row.EncryptedData, regDEK[row.UserID]) IN
        data.ok /\ data.pt = t.TransactionID

\* C9: in no reachable state does the stored cursor of an item lie past a
\* batch one of whose resolvable added records (a record for which
\* processPlaidTransaction found a linked account) is not persisted.
C9_CursorAfterPersistence ==
    \A it \in plaidItems :
        \A t \in resolved : t.batch <= it.Cursor => Persisted(t)

\* a sync request whose provider call failed
ProviderFailed(p) == sreq[p].failed

\* C10: a sync request whose provider call fails has made exactly one
\* provider call and answers with status 500 and the transport error, and no
\* step of such a request changes the stored cursor: table plaid_items
\* changes only in a step of a request whose single provider call succeeded.
C10_FailedSyncKeepsCursor ==
    /\ [](\A p \in SyncReqs :
            ProviderFailed(p) =>
                /\ sreq[p].calls = 1
                /\ sreq[p].pc \in {"record_failure", "return"}
                /\ sreq[p].pc = "return" =>
                      sreq[p].status = 500 /\ sreq[p].error = TransportError)
    /\ [][\A p \in SyncReqs :
            (sreq'[p] # sreq[p] /\ (ProviderFailed(p) \/ sreq'[p].failed))
                => plaidItems' = plaidItems]_vars

\* C10 witness: after an earlier sync moved the cursor, a request whose
\* provider call failed has answered 500 and the stored cursor is the one it
\* had read.
C10_Witness ==
    \E p \in SyncReqs :
        /\ ProviderFailed(p)
        /\ sreq[p].pc = "return"
        /\ sreq[p].status = 500
        /\ sreq[p].item.Cursor >= 1
        /\ \A it \in plaidItems : it.ID = sreq[p].item.ID => it.Cursor = sreq[p].item.Cursor

\* the added records the provider holds for the item
ProviderRecords == {Batch(n)[i] : n \in 1..NumBatches, i \in 1..Len(PlaidAccountIDs)}

\* the rows of table transactions that hold provider record t
RowsOf(t) ==
    {row \in transactions :
        LET data == Decrypt(row.EncryptedData, regDEK[row.UserID]) IN
        data.ok /\ data.pt = t.TransactionID}

ResultOf(p) == SyncTransactionsResult(sreq[p].item.Cursor)

\* C12: the response of a sync whose batch had added records, all of them
\* skipped because no account of the item is linked, differs from the
\* response for the same provider result without any added record.
C12_DroppedRecordsVisible ==
    \A p \in SyncReqs :
        (/\ sreq[p].pc = "return" /\ sreq[p].status = 200
         /\ Len(ResultOf(p).Added) > 0
         /\ sreq[p].addedCount = 0
         /\ \A a \in plaidAccounts : a.AccountID = NoValue)
        => sreq[p].response #
               SyncTransactionsResponse(0, [ResultOf(p) EXCEPT !.Added = <<>>])

\* the step in which request p, having called the provider, answers
Answers(p) ==
    /\ sreq[p].pc # "return"
    /\ sreq'[p].pc = "return"
    /\ sreq'[p].calls >= 1

\* C13: a sync request that reached the provider call appends exactly one
\* sync-history record, in the step in which it answers: with the prior
\* cursor and the error after a failed provider call, with the count, the
\* prior cursor and the new cursor after a successful one; no other step
\* changes the history.
C13_OneHistoryRecord ==
    [][/\ \A p \in SyncReqs :
            Answers(p) =>
                /\ Len(plaidSyncs') = Len(plaidSyncs) + 1
                /\ SubSeq(plaidSyncs', 1, Len(plaidSyncs)) = plaidSyncs
                /\ LET rec == plaidSyncs'[Len(plaidSyncs')] IN
                    /\ rec.PlaidItemID = sreq[p].item.ID
                    /\ rec.CursorBefore = sreq[p].item.Cursor
                    /\ sreq[p].failed => rec.ErrorMessage = TransportError
                    /\ ~sreq[p].failed =>
                          /\ rec.ErrorMessage = ""
                          /\ rec.AddedCount = sreq[p].addedCount
                          /\ rec.CursorAfter = sreq[p].result.NextCursor
       /\ plaidSyncs' # plaidSyncs => \E p \in SyncReqs : Answers(p)]_vars

\* C14: a sync request whose provider call succeeded answers 200, whatever
\* records of the batch could not be resolved, and the added count it
\* reports is the number of added records whose provider account was linked
\* to an OwnU account when the record was processed.
C14_BatchNotAborted ==
    \A p \in SyncReqs :
        (sreq[p].pc = "return" /\ sreq[p].calls = 1 /\ ~sreq[p].failed) =>
            /\ sreq[p].status = 200
            /\ sreq[p].response.AddedCount = sreq[p].resolvable

(***************************************************************************)
(* Properties of the Begin handlers                                        *)
(***************************************************************************)
\* a step of the Begin handler op that answers
BeginAnswers(op) == beginResp' # beginResp /\ beginResp'.op = op

\* the user lookup of the answering Begin call did not fail
LookupDone == beginResp'.error # "database error"

\* C15: beginRegistration answers an empty username with 400 "username is
\* required" and, when its lookup finds a user of that name, a taken
\* username with 409 "username already exists"; a beginRegistration that
\* does not answer 200 leaves users, credentials and the session store as
\* they were and issues no handle.
C15_BeginRegistrationRejects ==
    [][BeginAnswers("beginRegistration") =>
        /\ beginResp'.Username = "" =>
              beginResp'.status = 400 /\ beginResp'.error = "username is required"
        /\ (/\ beginResp'.Username # ""
            /\ \E u \in users : u.Username = beginResp'.Username
            /\ LookupDone)
           => beginResp'.status = 409 /\ beginResp'.error = "username already exists"
        /\ beginResp'.status # 200 =>
              UNCHANGED <<users, credentials, sessions, issued, uuidCtr>>]_vars

\* C15 witness: beginRegistration has answered 409 for the name of a user.
C15_Witness ==
    /\ beginResp.op = "beginRegistration"
    /\ beginResp.status = 409
    /\ \E u \in users : u.Username = beginResp.Username

\* C16: beginLogin for a username that no user has answers, when its lookup
\* does not fail, 404 "user not found", and leaves the session store as it
\* was and issues no handle.
C16_BeginLoginNotFound ==
    [][(/\ BeginAnswers("beginLogin")
        /\ beginResp'.Username # ""
        /\ \A u \in users : u.Username # beginResp'.Username
        /\ LookupDone)
       => /\ beginResp'.status = 404 /\ beginResp'.error = "user not found"
          /\ UNCHANGED <<sessions, issued, uuidCtr>>]_vars

\* C16 witness: beginLogin has answered 404 for a name that no user has.
C16_Witness ==
    /\ beginResp.op = "beginLogin"
    /\ beginResp.status = 404
    /\ beginResp.Username # ""
    /\ \A u \in users : u.Username # beginResp.Username

(***************************************************************************)
(* Properties of the session store                                         *)
(***************************************************************************)
\* the entry of handle h was saved, has not been deleted or swept since its
\* last Save, and that Save is at most SessionTTL minutes old
Fresh(h) == h \in DOMAIN savedAt /\ now <= savedAt[h] + SessionTTL

\* C17: SessionStore.Get(h) reports found exactly when h was saved, has not
\* been deleted or swept since, and the time is not later than 5 minutes
\* after the save; an expired entry still in the map is reported not-found.
C17_GetFoundWhileFresh ==
    [][got' # got => (got'.ok <=> Fresh(got'.key))]_vars

\* a Get of an expired entry that is still in the map has answered not-found
C17_Witness ==
    /\ got.present
    /\ ~got.ok
    /\ got.key \in DOMAIN sessions
    /\ now > savedAt[got.key] + SessionTTL

\* no entry is in the map later than its lifetime plus one sweep period
\* after its Save, and an expired entry is there only while the pass of
\* the first tick after its expiry has not run
AgeBound ==
    \A k \in DOMAIN sessions :
        \/ now <= savedAt[k] + SessionTTL
        \/ sweepDue /\ now <= savedAt[k] + SessionTTL + SweepPeriod

\* the entries whose lifetime and sweep period end on the bounded clock
Due == {k \in DOMAIN savedAt : savedAt[k] + SessionTTL + SweepPeriod <= MaxStoreTime}

\* C18: every entry that is never claimed is eventually removed by the
\* background sweep, no later than the first sweep tick after its expiry:
\* no entry stays in the map longer than its 5-minute lifetime plus one
\* 1-minute sweep period.  (Eventual removal is checked for the entries
\* whose limit lies on the bounded clock: in the end none of them is left.)
C18_SweptWithinPeriod == []AgeBound /\ <>[](Due = {})

\* a pass of cleanup has just removed an entry, one lifetime and one sweep
\* period after its Save
C18_Witness ==
    /\ swept # {}
    /\ ~sweepDue
    /\ now >= SessionTTL + SweepPeriod
    /\ swept \cap DOMAIN sessions = {}

\* the Finish handler of goroutine p returns in this step
Returns(p) == req[p].pc = "return" /\ req'[p].pc = "idle"

\* C19: after a FinishRegistration or FinishLogin call naming handle h has
\* returned, whether it succeeded, failed, or was rejected because h was
\* expired, h is not in the map of the session store.
C19_FinishDeletesSession ==
    [][\A p \in Reqs : Returns(p) => req[p].SessionID \notin DOMAIN sessions']_vars

\* goroutine g is inside the critical section of a store method
Inside(g) == call[g].pc = "locked"

\* C20: every write to the session map is mutually exclusive: no Save,
\* Delete or cleanup pass is inside its critical section, where it touches
\* the map, while another Save, Delete, cleanup pass or Get is inside its
\* own; only Gets overlap each other.
C20_WritesExclusive ==
    \A g, h \in Goroutines :
        (g # h /\ Inside(g) /\ Inside(h)) => (call[g].kind = "Get" /\ call[h].kind = "Get")

\* two Gets are inside their critical sections at once while an expired
\* entry waits for the cleanup pass, which is kept outside
C20_Witness ==
    /\ \E g, h \in Callers : g # h /\ call[g] = LockedCall("Get") /\ call[h] = LockedCall("Get")
    /\ \E k \in DOMAIN sessions : now > sessions[k].ExpiresAt
    /\ ~Inside(Sweeper)
    /\ mu.readers = 2

\* C21: SessionStore.Delete is idempotent: on every store, and for a handle
\* that is in the map, missing or already deleted alike, Delete(h) followed
\* by Delete(h) yields the store of a single Delete(h), which lacks h and
\* holds every other handle with its entry untouched.
C21_DeleteIdempotent ==
    \A h \in StoreKeys :
        LET once == Delete(sessions, h) IN
        /\ Delete(once, h) = once
        /\ DOMAIN once = DOMAIN sessions \ {h}
        /\ \A k \in DOMAIN once : once[k] = sessions[k]

\* a handle that Get found has been deleted before any entry could expire,
\* and another handle is in the map
C21_Witness ==
    /\ got.ok
    /\ got.key \notin DOMAIN sessions
    /\ now <= SessionTTL
    /\ DOMAIN sessions # {}

(***************************************************************************)
(* Properties of the protected routes                                      *)
(***************************************************************************)
\* the account rows of the authenticated user that do not decrypt under the
\* DEK of the request's token
Undecryptable(auth) ==
    {a \in GetAccountsByUserID(auth.claims.UserID) :
        \E u \in GetByID(auth.claims.UserID) :
            LET dek == decryptDEK(auth.claims.EncryptedDEK, u) IN
            dek.ok /\ ~decryptAccountData(a.EncryptedData, dek.pt).ok}

\* C22: a request during which the decryption of the wrapped DEK or of a
\* stored encrypted field fails ends in an error: no listAccounts response is
\* a success while an account row of the user fails to decrypt.
C22_DecryptFailureAborts ==
    [][presp' # presp /\ presp'.op = "listAccounts" /\ presp'.status = 200
          => Undecryptable(presp'.auth) = {}]_vars

(***************************************************************************)
(* Properties of the persistence writes                                    *)
(***************************************************************************)
\* C23: a persistence write inside FinishLogin or Sync that fails makes the
\* operation report a failure: the step of the signature-counter update that
\* leaves the stored counter different from the asserted one does not answer
\* 200, the step of the cursor update that leaves the stored cursor different
\* from the new cursor ends the request with a failure, and the step of the
\* history insert that appends no record does not answer 200.
C23_StorageErrorsPropagate ==
    [][/\ \A p \in Reqs :
            (/\ req[p].pc = "update_count"
             /\ req'[p].pc # "update_count"
             /\ \E c \in credentials' :
                   c.ID = req[p].cred.ID /\ c.SignCount # req[p].cred.SignCount)
                => req'[p].status # 200
       /\ \A p \in SyncReqs :
            /\ (/\ sreq[p].pc = "update_cursor"
                /\ sreq'[p].pc # "update_cursor"
                /\ \E it \in plaidItems' :
                      it.ID = sreq[p].item.ID /\ it.Cursor # sreq[p].result.NextCursor)
                   => sreq'[p].pc = "return" /\ sreq'[p].status # 200
            /\ (/\ sreq[p].pc = "record_success"
                /\ sreq'[p].pc # "record_success"
                /\ plaidSyncs' = plaidSyncs)
                   => sreq'[p].status # 200]_vars

Wrapped(c) == c = NoCiphertext \/ c.key[1] = "argon2id"

\* C25: the plaintext DEK stays in the request that unwrapped or generated
\* it: no column of a database row, no entry of the session store, no field
\* of a response and no claim of an issued token is a DEK; the DEK columns
\* and claims hold ciphertexts made under a KEK, and the data columns hold
\* ciphertexts whose plaintext is no DEK.
C25_PlainDEKConfined ==
    /\ \A u \in users :
          /\ u.Username \notin DEKs
          /\ u.DEKSalt \notin DEKs
          /\ Wrapped(u.EncryptedDEK)
    /\ \A c \in credentials : c.ID \notin DEKs
    /\ \A h \in DOMAIN sessions : sessions[h].Username \notin DEKs
    /\ \A a \in accounts : a.EncryptedData.pt.Name \notin DEKs
    /\ \A it \in plaidItems : it.ID \notin DEKs /\ it.EncryptedAccessToken.pt \notin DEKs
    /\ \A i \in 1..Len(plaidSyncs) : plaidSyncs[i].ErrorMessage \notin DEKs
    /\ \A p \in Reqs :
          /\ req[p].error \notin DEKs
          /\ Wrapped(req[p].token.EncryptedDEK.b64)
    /\ \A p \in SyncReqs : sreq[p].error \notin DEKs
    /\ beginResp.error \notin DEKs
    /\ presp.error \notin DEKs
    /\ \A r \in presp.body : r.Name \notin DEKs

\* createAccount has unwrapped the DEK of the token, stored a row encrypted
\* under it and answered
C25_Witness ==
    /\ presp.op = "createAccount"
    /\ presp.status = 201
    /\ \E a \in accounts : a.ID = presp.id /\ a.EncryptedData.key \in DEKs

\* the request carries a Bearer token that verifies under the server secret,
\* is unexpired and has a parsable user ID
Authentic(auth) ==
    /\ auth.scheme = "Bearer"
    /\ auth.signed
    /\ ~auth.expired
    /\ auth.claims.UserID # BadUserID

\* C26: a request of the protected group that lacks a Bearer token which
\* verifies, is unexpired and carries a parsable user ID is answered 401 by
\* the middleware, no handler runs for it and no table, no session and no
\* request in progress changes.
C26_Unauthenticated401 ==
    [][presp' # presp /\ ~Authentic(presp'.auth) =>
          /\ presp'.op = "jwtMiddleware"
          /\ presp'.status = 401
          /\ presp'.body = {}
          /\ UNCHANGED <<users, credentials, sessions, accounts, plaidItems, plaidAccounts,
                         transactions, plaidSyncs, uuidCtr, preq, sreq>>]_vars

\* a signed but expired token was answered 401 while an account exists
C26_Witness ==
    /\ presp.op = "jwtMiddleware"
    /\ presp.status = 401
    /\ presp.auth.scheme = "Bearer"
    /\ presp.auth.signed
    /\ presp.auth.expired
    /\ accounts # {}

(***************************************************************************)
(* Properties of ownership                                                 *)
(***************************************************************************)
\* the account or item that the id names is a row of another user
Foreign(rows, id, userID) == \E r \in rows : r.ID = id /\ r.UserID # userID

\* C27 as stated: a request authenticated as user u that names an account or
\* item of another user is answered with not-found or access-denied.
C27_ForeignNotFound ==
    [][/\ (/\ presp' # presp
           /\ presp'.op \in {"getAccount", "updateAccount", "deleteAccount"}
           /\ presp'.id # BadUserID
           /\ Foreign(accounts, presp'.id, presp'.auth.claims.UserID))
             => presp'.status \in {403, 404}
       /\ (/\ presp' # presp
           /\ presp'.op = "deletePlaidItem"
           /\ Foreign(plaidItems, presp'.id, presp'.auth.claims.UserID))
             => presp'.status \in {403, 404}]_vars

\* C27, amended: a request authenticated as user u that names an account or
\* item of another user is answered with an error and an empty body and goes
\* no further: updateAccount does not reach its write, deletePlaidItem does
\* not reach the provider call and the delete, syncTransactions answers 403
\* or 404 and makes no provider call; every account or item row that a step
\* removes or rewrites belongs to the user of the request that took the
\* step, and so does the item of every history record appended.
C27_OwnDataOnly ==
    [][/\ (/\ presp' # presp
           /\ presp'.op \in {"getAccount", "updateAccount", "deleteAccount"}
           /\ presp'.id # BadUserID
           /\ Foreign(accounts, presp'.id, presp'.auth.claims.UserID))
             => /\ presp'.status >= 400
                /\ presp'.body = {}
                /\ UNCHANGED <<accounts, preq>>
       /\ (/\ presp' # presp
           /\ presp'.op = "deletePlaidItem"
           /\ Foreign(plaidItems, presp'.id, presp'.auth.claims.UserID))
             => /\ presp'.status >= 400
                /\ UNCHANGED <<plaidItems, plaidAccounts, plaidSyncs, preq>>
       /\ preq'.pc = "update_account" =>
             ~Foreign(accounts', preq'.id, preq'.auth.claims.UserID)
       /\ preq'.pc = "delete_item" =>
             ~Foreign(plaidItems', preq'.item, preq'.auth.claims.UserID)
       /\ \A a \in accounts \ accounts' : a.UserID = presp'.auth.claims.UserID
       /\ \A it \in plaidItems \ plaidItems' : it.UserID = presp'.auth.claims.UserID
       /\ \A p \in SyncReqs :
            /\ (/\ sreq[p].pc = "idle"
                /\ sreq'[p].pc # "idle"
                /\ plaidItems # {}
                /\ \A it \in plaidItems : it.UserID # sreq'[p].UserID)
                  => /\ sreq'[p].pc = "return"
                     /\ sreq'[p].status \in {403, 404}
                     /\ sreq'[p].calls = 0
                     /\ UNCHANGED <<plaidItems, plaidSyncs, transactions>>
            /\ sreq'[p].calls > sreq[p].calls =>
                  ~Foreign(plaidItems, sreq[p].item.ID, sreq[p].UserID)
       /\ Len(plaidSyncs') > Len(plaidSyncs) =>
             LET rec == plaidSyncs'[Len(plaidSyncs')] IN
             ~Foreign(plaidItems, rec.PlaidItemID, rec.UserID)]_vars

\* getAccount has answered 404 to a user who named the account of another
C27_Witness ==
    /\ presp.op = "getAccount"
    /\ presp.status = 404
    /\ Foreign(accounts, presp.id, presp.auth.claims.UserID)

(***************************************************************************)
(* Properties of the rate limiter                                          *)
(***************************************************************************)
RECURSIVE AdmittedIn(_, _, _)
\* the number of Allow(key) calls that returned true at a time in lo..hi
AdmittedIn(key, lo, hi) ==
    IF lo > hi THEN 0
    ELSE (IF lo >= 0 THEN admitted[key][lo] ELSE 0) + AdmittedIn(key, lo + 1, hi)

\* C28: for every key and every instant t, the number of Allow(key) calls
\* that returned true with a time in (t - window, t] is at most limit.
C28_AtMostLimitPerWindow ==
    \A key \in RateKeys, t \in 0..now :
        AdmittedIn(key, t - RateWindow + 1, t) <= RateLimit

\* a key is refused while its window is full, and it has been admitted more
\* often than limit in all: older admissions have left the window
C28_Witness ==
    /\ lastAllow.ok = FALSE
    /\ lastAllow.key \in RateKeys
    /\ AdmittedIn(lastAllow.key, now - RateWindow + 1, now) = RateLimit
    /\ AdmittedIn(lastAllow.key, 0, now) > RateLimit

(***************************************************************************)
(* Properties of Encrypt and Decrypt                                       *)
(***************************************************************************)
\* the keys under which the DEK is wrapped in the model
KEKs == {DeriveKeyFromSecret(s, salt) : s \in PRFBytes \cup TempSecrets, salt \in Salts}

\* Decrypt inverts Encrypt for every plaintext, key of the right length and
\* nonce
RoundTripOnBytes ==
    \A plaintext \in Plaintexts, key \in BytesOfLen(KeyLen), nonce \in BytesOfLen(NonceSize) :
        Open(Seal(plaintext, key, nonce).bytes, key) =
            [ok |-> TRUE, error |-> "", pt |-> plaintext]

\* C29: Decrypt of what Encrypt returned, under the same key, returns exactly
\* the plaintext, for every plaintext (the empty one included) and every key
\* of the right length; DecryptDEK of what EncryptDEK returned returns the
\* DEK.
C29_RoundTrip ==
    /\ \A i \in 1..Len(sealLog) :
          /\ Open(sealLog[i].ciphertext, sealLog[i].key).ok
          /\ Open(sealLog[i].ciphertext, sealLog[i].key).pt = sealLog[i].plaintext
    /\ RoundTripOnBytes
    /\ \A dek \in DEKs, kek \in KEKs, nonce \in Nonces :
          DecryptDEK(EncryptDEK(dek, kek, nonce), kek) = [ok |-> TRUE, pt |-> dek]

\* the empty plaintext and a plaintext of full length were encrypted
C29_Witness ==
    /\ \E i \in 1..Len(sealLog) : sealLog[i].plaintext = <<>>
    /\ \E i \in 1..Len(sealLog) : Len(sealLog[i].plaintext) = MaxPlainLen

SealedUnder(key) ==
    {Seal(plaintext, key, nonce).bytes :
        plaintext \in Plaintexts, nonce \in BytesOfLen(NonceSize)}

\* the inputs handed to Decrypt: every byte string shorter than nonce and
\* tag together (the empty one included), and every nonce, every masked part
\* up to MaxPlainLen and every tag of any key, or a tag of no key
DecryptInputs ==
    UNION {BytesOfLen(n) : n \in 0..(NonceSize + TagSize - 1)}
    \cup {nonce \o body \o tag :
            nonce \in BytesOfLen(NonceSize), body \in Plaintexts,
            tag \in {<<0>>} \cup {Tag(k, n, b) : k \in BytesOfLen(KeyLen),
                                               n \in BytesOfLen(NonceSize),
                                               b \in Plaintexts}}

\* the answer of Decrypt to an invalid ciphertext
IntegrityError == [ok |-> FALSE, error |-> "IntegrityError", pt |-> <<>>]

\* the ciphertext with one position changed, and its proper prefixes
Corruptions(c) ==
    {[c EXCEPT ![p] = BitXor(c[p], 1)] : p \in 1..(Len(c) - TagSize)}
    \cup {[c EXCEPT ![p] = BitXor(c[p], bit)] :
            p \in (Len(c) - TagSize + 1)..Len(c), bit \in {1, 2, 4}}
    \cup {SubSeq(c, 1, n) : n \in 0..(Len(c) - 1)}

\* Decrypt under a key of the right length answers IntegrityError to every
\* input that Encrypt cannot return under that key
OnlySealedOpens ==
    \A key \in BytesOfLen(KeyLen) :
        \A x \in DecryptInputs \ SealedUnder(key) : Open(x, key) = IntegrityError

SameButForCase(a, b) ==
    /\ Len(a) = Len(b)
    /\ \A i \in 1..Len(a) : a[i].w = b[i].w

\* s with l blanks in front and r blanks behind
Padded(l, s, r) == [i \in 1..l |-> Blank] \o s \o [i \in 1..r |-> Blank]

\* a and b differ only in letter case and in leading or trailing blanks
CaseAndPaddingVariant(a, b) ==
    \E n \in 0..Len(a) : \E la \in 0..(Len(a) - n), lb \in 0..(Len(b) - n) :
        /\ a = Padded(la, SubSeq(a, la + 1, la + n), Len(a) - la - n)
        /\ b = Padded(lb, SubSeq(b, lb + 1, lb + n), Len(b) - lb - n)
        /\ SameButForCase(SubSeq(a, la + 1, la + n), SubSeq(b, lb + 1, lb + n))

\* C32: VerifyRecoveryPhrase(p', HashRecoveryPhrase(p)) is true for every p'
\* that differs from p only in letter case or in leading and trailing
\* blanks, and false for every other p', the empty string included.
C32_VerifyRoundTripSound ==
    attempt.made => (attempt.ok <=> CaseAndPaddingVariant(enrolled.phrase, attempt.phrase))

\* a phrase of two words is in use; typed in upper case with blanks around
\* it, it verified
C32_Witness ==
    /\ attempt.made
    /\ attempt.ok
    /\ enrolled.phrase = <<Lower(0), Blank, Lower(1)>>
    /\ attempt.phrase = <<Blank, Upper(0), Blank, Lower(1)>>

\* s holds blanks only
AllBlank(s) == \A i \in 1..Len(s) : s[i] = Blank

\* a and b differ only in letter case, in leading and trailing blanks and in
\* the lengths of the blank runs between words; gap says that a blank run
\* was entered on both sides, or that the strings start here
RECURSIVE SameButForSpacing(_, _, _)
SameButForSpacing(a, b, gap) ==
    IF a = <<>> \/ b = <<>> THEN AllBlank(a) /\ AllBlank(b)
    ELSE IF Head(a) = Blank /\ Head(b) = Blank
    THEN SameButForSpacing(Tail(a), Tail(b), TRUE)
    ELSE IF Head(a) = Blank
    THEN (gap \/ AllBlank(a)) /\ SameButForSpacing(Tail(a), b, gap)
    ELSE IF Head(b) = Blank
    THEN (gap \/ AllBlank(b)) /\ SameButForSpacing(a, Tail(b), gap)
    ELSE Head(a).w = Head(b).w /\ SameButForSpacing(Tail(a), Tail(b), FALSE)

\* C33: a phrase that differs from the phrase in use only in case, in
\* surrounding blanks or in the length of internal blank runs derives the
\* same key with DeriveKeyFromPassphrase under the same salt and is accepted
\* by VerifyRecoveryPhrase against the hash of the phrase in use.
C33_NormalizedEverywhere ==
    (attempt.made /\ SameButForSpacing(enrolled.phrase, attempt.phrase, TRUE))
        => (attempt.key = enrolled.key /\ attempt.ok)

\* C34: two different values of the 16 entropy bytes never give the same
\* phrase: no other outcome of the entropy source gives the phrase that
\* GenerateRecoveryPhrase returned.
C34_PhraseInjective ==
    generated # NoGenerated =>
        \A entropy \in EntropyValues :
            entropy # generated.entropy =>
                GenerateRecoveryPhrase(entropy) # generated.phrase

(***************************************************************************)
(* Properties of the session tokens                                        *)
(***************************************************************************)
\* C35: a token issued by finishRegistration or finishLogin is no longer
\* let through by jwtMiddleware once 15 minutes have passed since it was
\* issued.
C35_TokenShortLived ==
    (jwtResp.made /\ jwtResp.age >= AccessTokenPolicy) => ~jwtResp.ok

\* a token was rejected as expired
JWTExpiryReached == jwtResp.made /\ ~jwtResp.ok

(***************************************************************************)
(* Properties of the two ceremonies together                               *)
(***************************************************************************)
\* C36: a FinishRegistration call with a handle of beginLogin creates no
\* user, no credential and no token, and a FinishLogin call with a handle of
\* beginRegistration returns no token.
C36_CeremoniesIndependent ==
    \A p \in Reqs :
        /\ (req[p].op = "finishRegistration" /\ req[p].SessionID \in LoginHandles)
              => (req[p].pc # "create_cred" /\ req[p].status # 200)
        /\ (req[p].op = "finishLogin" /\ req[p].SessionID \in RegistrationHandles)
              => req[p].status # 200

\* a FinishRegistration call with a handle of beginLogin created a user
LoginHandleRegisters ==
    \E p \in Reqs : /\ req[p].op = "finishRegistration"
                    /\ req[p].SessionID \in LoginHandles
                    /\ req[p].status = 200

\* a FinishLogin call with a handle of beginRegistration returned a token
RegistrationHandleLogsIn ==
    \E p \in Reqs : /\ req[p].op = "finishLogin"
                    /\ req[p].SessionID \in RegistrationHandles
                    /\ req[p].status = 200

\* C37: when two registration ceremonies for one username were begun before
\* either finished, no two user rows ever hold the same username, a
\* FinishRegistration call answers 200 only for the ceremony whose user row
\* is in the table, and the call whose insert of the user failed has created
\* no user row, no credential and no token.
C37_UsernamesUnique ==
    /\ \A u1, u2 \in users : u1.Username = u2.Username => u1 = u2
    /\ \A p \in Reqs :
          req[p].pc = "return" =>
             LET sessionData == sessions[req[p].SessionID] IN
             /\ req[p].status = 200 =>
                   \E u \in users : /\ u.ID = sessionData.UserID
                                    /\ u.Username = sessionData.Username
             /\ req[p].error = "failed to create user" =>
                   /\ req[p].token = NoToken
                   /\ \A u \in users : u.ID # sessionData.UserID
                   /\ \A c \in credentials : c.UserID # sessionData.UserID
    /\ \A p, q \in Reqs : (req[p].status = 200 /\ req[q].status = 200) => p = q

\* both ceremonies passed their session check before either had inserted its
\* user; one call answered 200 and the other failed on the insert of the user
\* while the database worked
C37_Witness ==
    /\ \A h \in issued : passCount[h] = 1
    /\ Cardinality(users) = 1
    /\ \E p, q \in Reqs :
          /\ req[p].status = 200
          /\ req[q].error = "failed to create user"

\* C38: under every interleaving of sync requests for an item, a write of the
\* item's cursor never stores a cursor that is earlier in the provider's
\* cursor sequence than the cursor stored before.
C38_CursorNeverBackward ==
    [][\A it \in plaidItems : \A after \in plaidItems' :
          after.ID = it.ID => after.Cursor >= it.Cursor]_vars

\* the indices of the success records of an item in plaid_syncs
SuccessRecords(itemID) ==
    {i \in 1..Len(plaidSyncs) :
        plaidSyncs[i].PlaidItemID = itemID /\ plaidSyncs[i].ErrorMessage = ""}

\* the most recent of a non-empty set of records
MostRecent(records) == CHOOSE i \in records : \A j \in records : j <= i

\* C39: in every state in which no sync request is in progress, the stored
\* cursor of an item that has a success record in plaid_syncs equals the
\* CursorAfter of the most recent of these records.
C39_HistoryAndCursorAgree ==
    (\A p \in SyncReqs : sreq[p].pc = "idle") =>
        \A it \in plaidItems :
            SuccessRecords(it.ID) # {} =>
                it.Cursor = plaidSyncs[MostRecent(SuccessRecords(it.ID))].CursorAfter

\* C40: while the provider holds NumBatches batches for the item and every
\* provider call succeeds, the loop of handleSyncTransactions that calls Sync
\* again while has_more is true comes to its end (syncingItem is reset);
\* behaviours are followed until plaid_syncs holds MaxHistory rows.
C40_LoopTerminates ==
    (dashboard.pc = "call") ~>
        (dashboard.pc = "idle" \/ Len(plaidSyncs) >= MaxHistory)

\* the loop has come to its end after a call that answered has_more and a
\* call that did not
LoopEnded ==
    /\ dashboard.clicked
    /\ dashboard.pc = "idle"
    /\ dashboard.error = ""
    /\ Len(plaidSyncs) = NumBatches
    /\ \A it \in plaidItems : it.Cursor = NumBatches

====
